---------------------------- MODULE Spec2Model ----------------------------
(***************************************************************************)
(* Galaxy simulator: the generator (generateSpiralArms, addCentralBulge),  *)
(* the rotation curve (calculateAngularVelocity) and the orchestrator      *)
(* (GalaxyRenderer: constructor, animate, updateConfig, monitorPerformance,*)
(* dispose) with its RenderingOptimizer.                                   *)
(*                                                                         *)
(* Numbers.  The program computes in IEEE doubles and stores star data in  *)
(* Float32Array.  The model computes in fixed point:                       *)
(*   - lengths, colour channels, sizes, times, random draws, angles:       *)
(*     integers counting 1/Unit (milli-units, milliseconds, milliradians); *)
(*   - the rotation-curve factor and ln/exp: integers counting 1/Fine;     *)
(*   - angular velocities: integers counting 1/(Unit*Fine) rad per second. *)
(* Every product is split so that no intermediate leaves 32 bits.          *)
(***************************************************************************)
EXTENDS Integers, Sequences, FiniteSets, TLC

Unit == 10^3
Fine == 10^4

\* NaN: a value apart from every number the model computes
NaN == -(2^30)

Abs(a) == IF a < 0 THEN -a ELSE a
Min(a, b) == IF a < b THEN a ELSE b
Max(a, b) == IF a > b THEN a ELSE b

\* floor(a*b/Unit), for |a| arbitrary and |b| < 2*10^6
Mul(a, b) == (a \div Unit) * b + ((a % Unit) * b) \div Unit

\* floor(a*b/Fine), for |b| < 2*10^5
MulF(a, b) == (a \div Fine) * b + ((a % Fine) * b) \div Fine

(***************************************************************************)
(* Math.floor, Math.sqrt, Math.cos, Math.sin, Math.atan2, Math.acos,       *)
(* Math.exp, Math.pow on fixed-point numbers.                              *)
(***************************************************************************)
\* Math.floor of a number counted in 1/Unit, as a plain integer
Floor(a) == a \div Unit

RECURSIVE SqrtSearch(_, _, _)
SqrtSearch(m, lo, hi) ==
    \* largest h in lo..hi with floor(h*h/Unit) <= m
    IF lo >= hi THEN lo
    ELSE LET mid == (lo + hi + 1) \div 2
         IN  IF Mul(mid, mid) <= m THEN SqrtSearch(m, mid, hi)
                                   ELSE SqrtSearch(m, lo, mid - 1)

RECURSIVE ISqrtSearch(_, _, _)
ISqrtSearch(m, lo, hi) ==
    \* largest h in lo..hi with h*h <= m, for hi < 46000
    IF lo >= hi THEN lo
    ELSE LET mid == (lo + hi + 1) \div 2
         IN  IF mid * mid <= m THEN ISqrtSearch(m, mid, hi)
                               ELSE ISqrtSearch(m, lo, mid - 1)

\* Math.sqrt(x*x + z*z), all in 1/Unit (exact squares while they fit)
Hypot(x, z) ==
    IF Abs(x) < 25000 /\ Abs(z) < 25000
    THEN ISqrtSearch(x * x + z * z, 0, Abs(x) + Abs(z))
    ELSE SqrtSearch(Mul(x, x) + Mul(z, z), 0, Abs(x) + Abs(z))

\* Math.sqrt(x*x + y*y + z*z), all in 1/Unit
Hypot3(x, y, z) ==
    IF Abs(x) < 15000 /\ Abs(y) < 15000 /\ Abs(z) < 15000
    THEN ISqrtSearch(x * x + y * y + z * z, 0, Abs(x) + Abs(y) + Abs(z))
    ELSE SqrtSearch(Mul(x, x) + Mul(y, y) + Mul(z, z), 0,
                    Abs(x) + Abs(y) + Abs(z))

\* Math.PI in milliradians
Pi == 3142
HalfPi == Pi \div 2
TwoPi == 2 * Pi - 1

\* cos t for 0 <= t <= HalfPi (milliradians), result in 1/Unit
CosQ(t) ==
    LET t2 == (t * t) \div Unit
        t4 == (t2 * t2) \div Unit
        t6 == (t4 * t2) \div Unit
    IN  Max(0, Unit - t2 \div 2 + t4 \div 24 - t6 \div 720)

\* sin t for 0 <= t <= HalfPi (milliradians), result in 1/Unit
SinQ(t) ==
    LET t2 == (t * t) \div Unit
        t3 == (t2 * t) \div Unit
        t5 == (t3 * t2) \div Unit
        t7 == (t5 * t2) \div Unit
    IN  Min(Unit, t - t3 \div 6 + t5 \div 120 - t7 \div 5040)

Cos(a) ==
    LET m == a % TwoPi
    IN  IF m <= HalfPi THEN CosQ(m)
        ELSE IF m <= Pi THEN -CosQ(Pi - m)
        ELSE IF m <= Pi + HalfPi THEN -CosQ(m - Pi)
        ELSE CosQ(TwoPi - m)

Sin(a) ==
    LET m == a % TwoPi
    IN  IF m <= HalfPi THEN SinQ(m)
        ELSE IF m <= Pi THEN SinQ(Pi - m)
        ELSE IF m <= Pi + HalfPi THEN -SinQ(m - Pi)
        ELSE -SinQ(TwoPi - m)

RECURSIVE AtanSearch(_, _, _, _)
AtanSearch(num, den, lo, hi) ==
    \* largest t in lo..hi with tan t <= num/den, 0 <= num, den < 2*10^6
    IF lo >= hi THEN lo
    ELSE LET mid == (lo + hi + 1) \div 2
         IN  IF den * SinQ(mid) <= num * CosQ(mid)
             THEN AtanSearch(num, den, mid, hi)
             ELSE AtanSearch(num, den, lo, mid - 1)

\* Math.atan2(z, x) in milliradians, in (-Pi, Pi]; atan2(0, 0) = 0
Atan2(z, x) ==
    IF x = 0 /\ z = 0 THEN 0
    ELSE LET q == AtanSearch(Abs(z), Abs(x), 0, HalfPi)
         IN  IF x >= 0 /\ z >= 0 THEN q
             ELSE IF x < 0 /\ z >= 0 THEN Pi - q
             ELSE IF x < 0 /\ z < 0 THEN q - Pi
             ELSE -q

RECURSIVE AcosSearch(_, _, _)
AcosSearch(c, lo, hi) ==
    \* smallest t in lo..hi with Cos(t) <= c, for -Unit <= c <= Unit
    IF lo >= hi THEN lo
    ELSE LET mid == (lo + hi) \div 2
         IN  IF Cos(mid) <= c THEN AcosSearch(c, lo, mid)
                              ELSE AcosSearch(c, mid + 1, hi)

\* Math.acos(c) in milliradians, in [0, Pi]
Acos(c) == AcosSearch(c, 0, Pi)

\* ln 2 and sqrt 2 in 1/Fine
Ln2F == (6931 * Fine) \div 10^4
Sqrt2F == (14142 * Fine) \div 10^4

RECURSIVE LnF(_)
\* ln q for q > 0, q and result in 1/Fine
LnF(q) ==
    IF q * Sqrt2F < Fine * Fine
    THEN LnF(2 * q) - Ln2F
    ELSE IF q > Sqrt2F
    THEN LnF(q \div 2) + Ln2F
    ELSE LET z  == ((q - Fine) * Fine) \div (q + Fine)
             z2 == MulF(z, z)
             z3 == MulF(z2, z)
             z5 == MulF(z3, z2)
         IN  2 * z + (2 * z3) \div 3 + (2 * z5) \div 5

RECURSIVE ExpF(_)
\* exp w for w <= 0, w and result in 1/Fine
ExpF(w) ==
    IF w <= -Ln2F THEN ExpF(w + Ln2F) \div 2
    ELSE LET w2 == MulF(w, w)
             w3 == MulF(w2, w)
             w4 == MulF(w3, w)
             w5 == MulF(w4, w)
             w6 == MulF(w5, w)
         IN  Fine + w + w2 \div 2 + w3 \div 6 + w4 \div 24 + w5 \div 120
                  + w6 \div 720

\* Math.pow(q, e) for 0 < q <= 1 and e >= 0, all in 1/Fine
PowF(q, e) == ExpF(MulF(e, LnF(q)))

\* Math.exp(w) for w <= 0, w and result in 1/Unit
Exp(w) == ExpF(w * (Fine \div Unit)) \div (Fine \div Unit)

\* Math.fround: the value a Float32Array element keeps (24 significant bits)
RECURSIVE Fround(_)
Fround(n) == IF Abs(n) < 2^24 THEN n ELSE 2 * Fround(n \div 2)

(***************************************************************************)
(* Rotation model: calculateAngularVelocity(radius, rotationSpeed).        *)
(* radius and rotationSpeed in 1/Unit, the result in 1/(Unit*Fine).        *)
(***************************************************************************)
\* the outer branch alone: maxVelocity * Math.pow(30 / radius, 0.3)
OuterVelocity(radius, maxVelocity) ==
    maxVelocity * PowF((30 * Unit * Fine) \div radius, (3 * Fine) \div 10)

\* mutant: the plateau ends at radius 20 instead of 30
CalculateAngularVelocity_ShortPlateau(radius, rotationSpeed) ==
    IF radius < 10 * Unit THEN rotationSpeed * ((radius * Fine) \div (10 * Unit))
    ELSE IF radius < 20 * Unit THEN rotationSpeed * Fine
    ELSE OuterVelocity(radius, rotationSpeed)

\* mutant: the outer region keeps the peak velocity (no decline)
CalculateAngularVelocity_NoDecline(radius, rotationSpeed) ==
    IF radius < 10 * Unit THEN rotationSpeed * ((radius * Fine) \div (10 * Unit))
    ELSE rotationSpeed * Fine

\* mutant: the plateau returns the default speed 0.1, not rotationSpeed
CalculateAngularVelocity_FixedPeak(radius, rotationSpeed) ==
    IF radius < 10 * Unit THEN rotationSpeed * ((radius * Fine) \div (10 * Unit))
    ELSE IF radius < 30 * Unit THEN (Unit \div 10) * Fine
    ELSE OuterVelocity(radius, rotationSpeed)

CalculateAngularVelocity(radius, rotationSpeed) ==
    LET maxVelocity == rotationSpeed
    IN  IF radius < 10 * Unit
        THEN \* solid body rotation in the core
             maxVelocity * ((radius * Fine) \div (10 * Unit))
        ELSE IF radius < 30 * Unit
        THEN \* peak velocity region
             maxVelocity * Fine
        ELSE \* declining velocity in outer regions
             OuterVelocity(radius, maxVelocity)

(***************************************************************************)
(* Arrays.  An array is [len, data]: len is its length, data the sequence  *)
(* of its leading elements that the model tracks.  While every element is  *)
(* tracked, len = Len(data); elements pushed after an untracked one only   *)
(* count in len.  The generator's stars are independent of one another, so *)
(* the tracked prefix stands for any star.                                 *)
(***************************************************************************)
EmptyArray == [len |-> 0, data |-> <<>>]

\* arr.push(...vals)
Push(arr, vals) ==
    [len  |-> arr.len + Len(vals),
     data |-> IF arr.len = Len(arr.data) THEN arr.data \o vals ELSE arr.data]

\* n pushes of elements the model does not track
PushUntracked(arr, n) == [len |-> arr.len + n, data |-> arr.data]

\* arr[k], k from 0, for a tracked k
At(arr, k) == arr.data[k + 1]

\* new Float32Array(arr)
ToFloat32Array(arr) ==
    [len |-> arr.len, data |-> [k \in 1..Len(arr.data) |-> Fround(arr.data[k])]]

(***************************************************************************)
(* THREE.Color: <<r, g, b>> in 1/Unit.                                     *)
(***************************************************************************)
\* new THREE.Color(0xRRGGBB), the hex given as its three bytes
Color(hex) == <<(hex[1] * Unit) \div 255, (hex[2] * Unit) \div 255,
                (hex[3] * Unit) \div 255>>

\* new THREE.Color().lerpColors(c1, c2, alpha)
LerpColors(c1, c2, alpha) ==
    <<c1[1] + Mul(c2[1] - c1[1], alpha), c1[2] + Mul(c2[2] - c1[2], alpha),
      c1[3] + Mul(c2[3] - c1[3], alpha)>>

\* color.multiplyScalar(k)
MultiplyScalar(c, k) == <<Mul(c[1], k), Mul(c[2], k), Mul(c[3], k)>>

HexWhite == <<255, 255, 255>>
HexWarmWhite == <<255, 221, 170>>
HexCoolBlue == <<170, 221, 255>>
HexDeepBlue == <<102, 153, 204>>

(***************************************************************************)
(* Galaxy generator: generateSpiralArms.  A draw d is one star's           *)
(* Math.random() results in call order: arm, rad, angVar, radVar, yv, the  *)
(* colour draws c1 and c2, sz; each in 1/Unit, in [0, Unit).               *)
(***************************************************************************)
\* tightness * (1 + (armCount - 2) * 0.05)
AdjustedTightness(armCount, tightness) ==
    Mul(tightness, Unit + (armCount - 2) * 50)

\* Math.floor(Math.random() * armCount)
ArmIndex(d, armCount) == Floor(d.arm * armCount)

\* (armIndex * 2 * Math.PI) / armCount; with armCount = 0 the armIndex is
\* Math.floor(u * 0) = 0 and the quotient 0 / 0 is NaN
ArmAngleOffset(armIndex, armCount) ==
    IF armCount = 0 THEN NaN ELSE (armIndex * 2 * Pi) \div armCount

\* (Math.random() - 0.5) * 0.5 * (3 / armCount), for armCount # 0
AngleVariation(d, armCount) ==
    ((d.angVar - Unit \div 2) * 3) \div (2 * armCount)

\* mutant: a radial jitter of +-25 instead of +-5
RadiusVariation_Wide(d) == (d.radVar - Unit \div 2) * 50

\* (Math.random() - 0.5) * 10
RadiusVariation(d) == (d.radVar - Unit \div 2) * 10

\* (Math.random() - 0.5) * 5 * Math.exp(-finalRadius / 30)
VerticalOffset(d, finalRadius) ==
    Mul((d.yv - Unit \div 2) * 5, Exp(-(finalRadius \div 30)))

\* mutant: the brightness is left out
BrightnessValue_Ignored(config) == Unit

\* config.brightness || 1.0
BrightnessValue(config) ==
    IF config.brightness = 0 THEN Unit ELSE config.brightness

\* new THREE.Color(config.starColors[Math.floor(u * starColors.length)])
PickStarColor(config, u) ==
    Color(config.starColors[Floor(u * Len(config.starColors)) + 1])

\* the star's colour by distance ratio, times the brightness
StarColor(config, d, distanceRatio) ==
    LET color ==
          IF distanceRatio < 300
          THEN LerpColors(Color(HexWhite), Color(HexWarmWhite), d.c1)
          ELSE IF distanceRatio < 700
          THEN PickStarColor(config, d.c1)
          ELSE IF d.c1 < 700
          THEN MultiplyScalar(PickStarColor(config, d.c2), 850)
          ELSE LerpColors(Color(HexCoolBlue), Color(HexDeepBlue), d.c2)
    IN  MultiplyScalar(color, BrightnessValue(config))

\* baseSize * sizeVariation * distanceSize
StarSize(config, d, distanceRatio) ==
    LET baseSize      == config.particleSize
        sizeVariation == d.sz * 2 + Unit \div 2
        distanceSize  == IF distanceRatio < 300 THEN 1500
                         ELSE IF distanceRatio < 700 THEN 1200 ELSE Unit
    IN  Mul(Mul(baseSize, sizeVariation), distanceSize)

\* spiralAngle + angleVariation; a NaN armAngleOffset stays NaN through
\* both sums, whatever 3 / armCount is
FinalAngle(armAngleOffset, radius, adjustedTightness, d, armCount) ==
    IF armAngleOffset = NaN THEN NaN
    ELSE armAngleOffset + Mul(radius, adjustedTightness)
         + AngleVariation(d, armCount)

\* Math.cos(finalAngle) * finalRadius; NaN for a NaN angle
PolarX(finalAngle, finalRadius) ==
    IF finalAngle = NaN THEN NaN ELSE Mul(Cos(finalAngle), finalRadius)

\* Math.sin(finalAngle) * finalRadius; NaN for a NaN angle
PolarZ(finalAngle, finalRadius) ==
    IF finalAngle = NaN THEN NaN ELSE Mul(Sin(finalAngle), finalRadius)

\* one iteration of generateSpiralArms' loop: the star of draw d
SpiralStar(config, tightness, d) ==
    LET armCount        == config.armCount
        armIndex        == ArmIndex(d, armCount)
        armAngleOffset  == ArmAngleOffset(armIndex, armCount)
        radius          == Mul(d.rad, config.galaxyRadius)
        finalAngle      == FinalAngle(armAngleOffset, radius,
                                      AdjustedTightness(armCount, tightness),
                                      d, armCount)
        finalRadius     == Max(0, radius + RadiusVariation(d))
        x               == PolarX(finalAngle, finalRadius)
        z               == PolarZ(finalAngle, finalRadius)
        y               == VerticalOffset(d, finalRadius)
        distanceRatio   == (finalRadius * Unit) \div config.galaxyRadius
    IN  [pos   |-> <<x, y, z>>,
         color |-> StarColor(config, d, distanceRatio),
         size  |-> StarSize(config, d, distanceRatio)]

\* mutant: the star's y is not pushed
PushStar_NoY(out, star) ==
    [positions |-> Push(out.positions, <<star.pos[1], star.pos[3]>>),
     colors    |-> Push(out.colors, star.color),
     sizes     |-> Push(out.sizes, <<star.size>>)]

\* positions.push(x, y, z); colors.push(r, g, b); sizes.push(size)
PushStar(out, star) ==
    [positions |-> Push(out.positions, star.pos),
     colors    |-> Push(out.colors, star.color),
     sizes     |-> Push(out.sizes, <<star.size>>)]

\* n loop iterations whose stars the model does not track
PushUntrackedStars(out, n) ==
    [positions |-> PushUntracked(out.positions, 3 * n),
     colors    |-> PushUntracked(out.colors, 3 * n),
     sizes     |-> PushUntracked(out.sizes, n)]

RECURSIVE SpiralLoop(_, _, _, _, _)
\* for (let i = 0; i < starCount; i++) { ... }, from iteration i on;
\* draws holds the draws of the tracked (leading) iterations
SpiralLoop(config, tightness, draws, i, out) ==
    IF ~(i < config.starCount) THEN out
    ELSE IF i < Len(draws)
    THEN SpiralLoop(config, tightness, draws, i + 1,
                    PushStar(out, SpiralStar(config, tightness, draws[i + 1])))
    ELSE PushUntrackedStars(out, config.starCount - i)

NoStars == [positions |-> EmptyArray, colors |-> EmptyArray,
            sizes |-> EmptyArray]

\* generateSpiralArms(config, tightness = 0.3)
GenerateSpiralArms(config, tightness, draws) ==
    SpiralLoop(config, tightness, draws, 0, NoStars)

DefaultTightness == 300

(***************************************************************************)
(* Galaxy generator: addCentralBulge.  A draw d is one bulge star's        *)
(* Math.random() results in call order: r1, r2, theta, phi, c, sz.         *)
(***************************************************************************)
HexBulgeLight == <<255, 170, 102>>
HexBulgeDark == <<255, 136, 68>>

\* mutant: the two draws are added
BulgeRadius_Sum(config, d) == Mul(d.r1 + d.r2, config.coreSize)

\* Math.random() * Math.random() * config.coreSize
BulgeRadius(config, d) == Mul(Mul(d.r1, d.r2), config.coreSize)

\* mutant: the size starts at half the particle size
BulgeSize_FromHalf(config, d) == Mul(config.particleSize, 500 + d.sz)

\* config.particleSize * (1.5 + Math.random())
BulgeSize(config, d) == Mul(config.particleSize, 1500 + d.sz)

\* one iteration of addCentralBulge's loop: the star of draw d
BulgeStar(config, d) ==
    LET radius == BulgeRadius(config, d)
        theta  == Mul(d.theta, 2 * Pi)
        phi    == Acos(2 * d.phi - Unit)
        x      == Mul(Mul(radius, Sin(phi)), Cos(theta))
        y      == Mul(Mul(radius, Cos(phi)), 300)
        z      == Mul(Mul(radius, Sin(phi)), Sin(theta))
        color  == LerpColors(Color(HexBulgeLight), Color(HexBulgeDark), d.c)
    IN  [pos   |-> <<x, y, z>>,
         color |-> MultiplyScalar(color, BrightnessValue(config)),
         size  |-> BulgeSize(config, d)]

RECURSIVE BulgeLoop(_, _, _, _, _)
\* for (let i = 0; i < bulgeStars; i++) { ... }, from iteration i on
BulgeLoop(config, bulgeStars, draws, i, out) ==
    IF ~(i < bulgeStars) THEN out
    ELSE IF i < Len(draws)
    THEN BulgeLoop(config, bulgeStars, draws, i + 1,
                   PushStar(out, BulgeStar(config, draws[i + 1])))
    ELSE PushUntrackedStars(out, bulgeStars - i)

\* mutant: the stars are collected in new, empty sequences
AddCentralBulge_Fresh(config, arrays, bulgeStars, draws) ==
    BulgeLoop(config, bulgeStars, draws, 0, NoStars)

\* addCentralBulge(config, positions, colors, sizes, bulgeStars)
AddCentralBulge(config, arrays, bulgeStars, draws) ==
    BulgeLoop(config, bulgeStars, draws, 0, arrays)

(***************************************************************************)
(* Renderer: star set and rotation state.                                  *)
(***************************************************************************)
\* the stars whose entries a flat xyz array tracks
TrackedStars(positions) == Len(positions.data) \div 3

\* <<positions[i * 3], positions[i * 3 + 1], positions[i * 3 + 2]>>
StarPositionOf(positions, i) ==
    <<At(positions, i * 3), At(positions, i * 3 + 1), At(positions, i * 3 + 2)>>

\* Math.floor(this.galaxyConfig.starCount * 0.2)
BulgeStarCount(config) == config.starCount \div 5

\* mutant: the rotation arrays get one entry per coordinate
TotalStars_PerCoordinate(positions) == positions.len

\* const totalStars = this.positions.length / 3
TotalStars(positions) == positions.len \div 3

\* generateGalaxy's radius of star i (from 0): it reads positions[i * 3] and
\* positions[i * 3 + 1]
RotationRadius(positions, i) ==
    Hypot(At(positions, i * 3), At(positions, i * 3 + 1))

\* new Float32Array(...) of galaxyData's positions, colors and sizes
ToFloat32Arrays(galaxyData) ==
    [positions |-> ToFloat32Array(galaxyData.positions),
     colors    |-> ToFloat32Array(galaxyData.colors),
     sizes     |-> ToFloat32Array(galaxyData.sizes)]

\* the loop filling rotationRadii and angularVelocities from the positions
WithRotationData(config, arrays) ==
    [positions |-> arrays.positions,
     colors    |-> arrays.colors,
     sizes     |-> arrays.sizes,
     rotationRadii |->
         [len  |-> TotalStars(arrays.positions),
          data |-> [i \in 1..TrackedStars(arrays.positions) |->
                       Fround(RotationRadius(arrays.positions, i - 1))]],
     angularVelocities |->
         [len  |-> TotalStars(arrays.positions),
          data |-> [i \in 1..TrackedStars(arrays.positions) |->
                       Fround(CalculateAngularVelocity(
                                  RotationRadius(arrays.positions, i - 1),
                                  config.rotationSpeed))]]]

\* generateGalaxy(): the five arrays built from config
GenerateGalaxy(config, spiralDraws, bulgeDraws) ==
    WithRotationData(config,
        ToFloat32Arrays(
            AddCentralBulge(config,
                GenerateSpiralArms(config, DefaultTightness, spiralDraws),
                BulgeStarCount(config), bulgeDraws)))

\* elapsedTime * angularVelocity, in 1/Unit rad: elapsedTime in 1/Unit s,
\* angularVelocity in 1/(Unit * Fine) rad/s
RotationAngle(elapsedTime, angularVelocity) ==
    MulF(angularVelocity, elapsedTime) \div Unit

\* Math.atan2(z, x) + elapsedTime * angularVelocity
NewAngle(position, elapsedTime, angularVelocity) ==
    Atan2(position[3], position[1]) + RotationAngle(elapsedTime, angularVelocity)

\* mutant: the star is turned about the x axis as well
RotateStar_Tilting(position, radius, newAngle) ==
    IF radius < Unit \div 10 THEN position
    ELSE <<Fround(Mul(Cos(newAngle), radius)),
           Fround(Mul(Sin(newAngle), position[2])),
           Fround(Mul(Sin(newAngle), radius))>>

\* one iteration of updateStarPositions' loop: the star's position after it
RotateStar(position, radius, newAngle) ==
    IF radius < Unit \div 10 THEN position
    ELSE <<Fround(Mul(Cos(newAngle), radius)), position[2],
           Fround(Mul(Sin(newAngle), radius))>>

\* the flat xyz array of a sequence of positions
Flatten(stars) ==
    [k \in 1..(3 * Len(stars)) |-> stars[((k - 1) \div 3) + 1][((k - 1) % 3) + 1]]

\* updateStarPositions(elapsedTime): the positions array after the loop
UpdateStarPositions(positions, rotationRadii, angularVelocities, elapsedTime) ==
    [positions EXCEPT
        !.data = Flatten(
            [i \in 1..TrackedStars(positions) |->
                RotateStar(StarPositionOf(positions, i - 1),
                           At(rotationRadii, i - 1),
                           NewAngle(StarPositionOf(positions, i - 1),
                                    elapsedTime,
                                    At(angularVelocities, i - 1)))])]

(***************************************************************************)
(* Rendering optimizer.  A mesh is the instanced mesh of one LOD level:    *)
(* cached (held in instancedMeshes), inScene, its capacity, its count,     *)
(* the stars written into it (nearest last), and how often its geometry    *)
(* and its material were disposed.  Counts are of the tracked stars.       *)
(***************************************************************************)
LodDistances == <<50 * Unit, 100 * Unit, 200 * Unit, 400 * Unit>>
Levels == 0..Len(LodDistances)

NoMesh == [cached |-> FALSE, inScene |-> FALSE, capacity |-> 0, count |-> 0,
           written |-> <<>>, geometryReleases |-> 0, materialReleases |-> 0]
NoMeshes == [l \in Levels |-> NoMesh]

RECURSIVE LODLevelFrom(_, _)
LODLevelFrom(distance, i) ==
    IF ~(i < Len(LodDistances)) THEN Len(LodDistances)
    ELSE IF distance < LodDistances[i + 1] THEN i
    ELSE LODLevelFrom(distance, i + 1)

\* mutant: a star at a threshold still belongs to the nearer level
GetLODLevel_Inclusive(distance) == LODLevelFrom(distance - 1, 0)

\* getLODLevel(distance)
GetLODLevel(distance) == LODLevelFrom(distance, 0)

\* position.distanceTo(cameraPosition)
DistanceTo(p, c) == Hypot3(p[1] - c[1], p[2] - c[2], p[3] - c[3])

Dot(a, b) == Mul(a[1], b[1]) + Mul(a[2], b[2]) + Mul(a[3], b[3])
Cross(a, b) == <<Mul(a[2], b[3]) - Mul(a[3], b[2]),
                 Mul(a[3], b[1]) - Mul(a[1], b[3]),
                 Mul(a[1], b[2]) - Mul(a[2], b[1])>>
Sub3(a, b) == <<a[1] - b[1], a[2] - b[2], a[3] - b[3]>>
Scale3(v, num, den) == <<(v[1] * num) \div den, (v[2] * num) \div den,
                         (v[3] * num) \div den>>
Normalize(v) == Scale3(v, Unit, Hypot3(v[1], v[2], v[3]))

\* the camera's frustum: fov 75, near 0.1, far 1000
HalfFov == (75 * Pi) \div 360
TanHalfFov == (Sin(HalfFov) * Unit) \div Cos(HalfFov)
\* mutant: the near plane lies behind the eye
Near_BehindEye == -(Unit \div 10)
Near == Unit \div 10
Far == 1000 * Unit
Origin == <<0, 0, 0>>
YUp == <<0, Unit, 0>>

FrustumAxes(eye, aspect, forward, right) ==
    [eye |-> eye, forward |-> forward, right |-> right,
     up |-> Cross(right, forward), aspect |-> aspect]

FrustumAlong(eye, aspect, forward) ==
    FrustumAxes(eye, aspect, forward, Normalize(Cross(forward, YUp)))

\* updateFrustum(camera): the frustum's axes; the camera is at
\* cameraPosition and looks at the origin, with y up
Frustum(cameraPosition, aspect) ==
    FrustumAlong(cameraPosition, aspect, Normalize(Sub3(Origin, cameraPosition)))

\* frustum.containsPoint of the point at v from the eye, depth along forward
ContainsAt(frustum, v, depth) ==
    /\ depth >= Near
    /\ depth <= Far
    /\ Abs(Dot(v, frustum.up)) <= Mul(depth, TanHalfFov)
    /\ Abs(Dot(v, frustum.right)) <= Mul(Mul(depth, TanHalfFov), frustum.aspect)

ContainsOffset(frustum, v) == ContainsAt(frustum, v, Dot(v, frustum.forward))

\* isPointVisible(point): this.frustum.containsPoint(point)
IsPointVisible(frustum, point) == ContainsOffset(frustum, Sub3(point, frustum.eye))

RECURSIVE InsertStar(_, _)
InsertStar(sorted, s) ==
    IF sorted = <<>> THEN <<s>>
    ELSE IF Head(sorted).distance >= s.distance
    THEN <<Head(sorted)>> \o InsertStar(Tail(sorted), s)
    ELSE <<s>> \o sorted

\* mutant: the bucket is written in array order
SortStars_ArrayOrder(stars) == stars

RECURSIVE SortStars(_)
\* stars.sort((a, b) => b.distance - a.distance)
SortStars(stars) ==
    IF stars = <<>> THEN <<>>
    ELSE InsertStar(SortStars(SubSeq(stars, 1, Len(stars) - 1)),
                    stars[Len(stars)])

\* getInstancedMesh(lodLevel, maxInstances)
GetInstancedMesh(meshes, lodLevel, maxInstances) ==
    IF meshes[lodLevel].cached THEN meshes[lodLevel]
    ELSE [NoMesh EXCEPT !.cached = TRUE, !.capacity = maxInstances]

\* mutant: the meshes of the frame before stay as they are
ClearMeshes_Kept(meshes) == meshes

\* this.instancedMeshes.forEach(mesh => { scene.remove(mesh); mesh.count = 0 })
ClearMeshes(meshes) ==
    [l \in Levels |->
        IF meshes[l].cached
        THEN [meshes[l] EXCEPT !.inScene = FALSE, !.count = 0]
        ELSE meshes[l]]

\* one iteration of the loop over the stars: star i, where it is, how far
StarEntry(i, position, distance, frustum) ==
    [star     |-> i,
     distance |-> distance,
     kept     |-> /\ ~(distance > LodDistances[Len(LodDistances)] * 2)
                  /\ IsPointVisible(frustum, position),
     lodLevel |-> GetLODLevel(distance)]

StarEntries(positions, cameraPosition, frustum) ==
    [i \in 1..TrackedStars(positions) |->
        StarEntry(i - 1, StarPositionOf(positions, i - 1),
                  DistanceTo(StarPositionOf(positions, i - 1), cameraPosition),
                  frustum)]

RECURSIVE StarsByLODFrom(_, _, _)
StarsByLODFrom(entries, l, i) ==
    IF i > Len(entries) THEN <<>>
    ELSE IF entries[i].kept /\ entries[i].lodLevel = l
    THEN <<entries[i]>> \o StarsByLODFrom(entries, l, i + 1)
    ELSE StarsByLODFrom(entries, l, i + 1)

\* starsByLOD.get(l), empty for a level that has no entry
StarsByLOD(entries, l) == StarsByLODFrom(entries, l, 1)

\* instancedMesh.count = stars.length; setMatrixAt(index, ...) for each
\* star; scene.add(instancedMesh)
SetInstances(mesh, stars) ==
    [mesh EXCEPT
        !.count = Len(stars),
        !.written = [k \in 1..Min(Len(stars), mesh.capacity) |-> stars[k].star],
        !.inScene = TRUE]

\* one iteration of starsByLOD.forEach
SubmitLevel(meshes, l, stars) ==
    SetInstances(GetInstancedMesh(meshes, l, Len(stars)), stars)

SubmitStars(meshes, entries) ==
    [l \in Levels |->
        IF StarsByLOD(entries, l) # <<>>
        THEN SubmitLevel(meshes, l, SortStars(StarsByLOD(entries, l)))
        ELSE meshes[l]]

\* optimizeStarRendering(scene, camera, positions, colors, sizes)
OptimizeStarRendering(meshes, cameraPosition, aspect, positions) ==
    SubmitStars(ClearMeshes(meshes),
                StarEntries(positions, cameraPosition,
                            Frustum(cameraPosition, aspect)))

\* RenderingOptimizer.dispose(): the meshes after it
DisposeCachedMeshes(meshes) ==
    [l \in Levels |->
        IF meshes[l].cached
        THEN [meshes[l] EXCEPT
                 !.cached = FALSE,
                 !.geometryReleases = @ + 1, !.materialReleases = @ + 1]
        ELSE meshes[l]]

\* scene.traverse(object => ... dispose ...): the meshes after it
DisposeSceneMeshes(meshes) ==
    [l \in Levels |->
        IF meshes[l].inScene
        THEN [meshes[l] EXCEPT
                 !.geometryReleases = @ + 1, !.materialReleases = @ + 1]
        ELSE meshes[l]]

(***************************************************************************)
(* GalaxyViewer.  The component's variables are the fields of one record:  *)
(* scene, renderer, controls, galaxyMesh and starData say whether the      *)
(* object exists; pixelRatio is the renderer's, pointSize the size of the  *)
(* mesh's material; generatedFrom is the config the mesh was created from  *)
(* and rotatedBy the time, in ms, its stars' angles were advanced by.      *)
(* Times are in ms, as requestAnimationFrame passes them.                  *)
(***************************************************************************)
\* the galaxyConfig prop: the fields the component's quality code touches
DefaultViewerConfig == [starCount |-> 25 * Unit, particleSize |-> 100]

NoViewerConfig == [starCount |-> 0, particleSize |-> 0]

\* the component's variables before onMount
NewViewer(config) ==
    [mounted |-> "created",
     scene |-> FALSE, renderer |-> FALSE, controls |-> FALSE,
     galaxyMesh |-> FALSE, starData |-> FALSE,
     isWebGLAvailable |-> TRUE, webGLErrorMessage |-> "",
     performanceLevel |-> "high",
     galaxyConfig |-> config,
     animationId |-> 0, lastTime |-> 0,
     frameCount |-> 0, lastFpsTime |-> 0, currentFps |-> 60,
     pixelRatio |-> 0, pointSize |-> 0,
     generatedFrom |-> NoViewerConfig, rotatedBy |-> 0]

\* a device: what getContext('webgl') gives ("full", "limited": fewer than
\* 10 extensions, "none"), whether new THREE.WebGLRenderer succeeds, and
\* what detectDeviceCapabilities reads; memory 0 is deviceMemory undefined
Desktop ==
    [gl |-> "full", rendererWorks |-> TRUE, isMobile |-> FALSE, memory |-> 16,
     intelGpu |-> FALSE, screenPixels |-> 1920 * 1080,
     devicePixelRatio |-> Unit]

\* the frame intervals, in ms, of 40, 25 and 10 frames per second
ViewerFrameIntervals == {25, 40, 100}

\* the page before the component is mounted
NewPage(interval) ==
    [now |-> 0, frames |-> {}, resizeListeners |-> 0, interval |-> interval,
     lastOp |-> "none", renderThrew |-> FALSE]

\* Math.round(a / b) for a >= 0, b > 0
RoundDiv(a, b) == (2 * a + b) \div (2 * b)

\* the pixel ratio applyPerformanceSettings and handleResize set for a level
PixelRatioFor(level, devicePixelRatio) ==
    CASE level = "low" -> Min(devicePixelRatio \div 2, Unit)
      [] level = "medium" -> Min((devicePixelRatio * 3) \div 4, (3 * Unit) \div 2)
      [] OTHER -> Min(devicePixelRatio, 2 * Unit)

\* the material size applyPerformanceSettings sets for a level
PointSizeFor(level, particleSize) ==
    CASE level = "low" -> (particleSize * 7) \div 10
      [] level = "medium" -> (particleSize * 85) \div 100
      [] OTHER -> particleSize

\* applyPerformanceSettings()
ApplyPerformanceSettings(v, devicePixelRatio) ==
    IF ~v.renderer \/ ~v.galaxyMesh THEN v
    ELSE [v EXCEPT
            !.pixelRatio = PixelRatioFor(v.performanceLevel, devicePixelRatio),
            !.pointSize = PointSizeFor(v.performanceLevel,
                                       v.galaxyConfig.particleSize)]

\* the level adjustPerformanceLevel picks for a frame rate
LevelForFps(currentFps) ==
    IF currentFps < 20 THEN "low"
    ELSE IF currentFps < 40 THEN "medium"
    ELSE "high"

\* adjustPerformanceLevel()
AdjustPerformanceLevel(v, devicePixelRatio) ==
    IF LevelForFps(v.currentFps) # v.performanceLevel
    THEN ApplyPerformanceSettings(
             [v EXCEPT !.performanceLevel = LevelForFps(v.currentFps)],
             devicePixelRatio)
    ELSE v

\* updatePerformanceMetrics(currentTime)
UpdatePerformanceMetrics(v, currentTime, devicePixelRatio) ==
    IF currentTime - v.lastFpsTime >= 1000
    THEN AdjustPerformanceLevel(
             [v EXCEPT
                !.currentFps = RoundDiv((v.frameCount + 1) * 1000,
                                        currentTime - v.lastFpsTime),
                !.frameCount = 0,
                !.lastFpsTime = currentTime],
             devicePixelRatio)
    ELSE [v EXCEPT !.frameCount = @ + 1]

\* checkWebGLSupport(): the component after it; it returned true iff
\* dev.gl = "full"
CheckWebGLSupport(v, dev) ==
    CASE dev.gl = "none" ->
            [v EXCEPT !.isWebGLAvailable = FALSE,
                      !.webGLErrorMessage = "not supported"]
      [] dev.gl = "limited" ->
            [v EXCEPT !.isWebGLAvailable = FALSE,
                      !.webGLErrorMessage = "limited support"]
      [] OTHER -> v

\* isMobile || (memory && memory < 2) || gpuInfo.includes('Intel') ||
\* screenResolution < 1000000
IsLowEnd(dev) ==
    \/ dev.isMobile
    \/ (dev.memory # 0 /\ dev.memory < 2)
    \/ dev.intelGpu
    \/ dev.screenPixels < 1000000

\* (memory && memory < 8) || isHighRes || isMobile
IsMidRange(dev) ==
    \/ (dev.memory # 0 /\ dev.memory < 8)
    \/ dev.screenPixels > 2073600
    \/ dev.isMobile

\* detectDeviceCapabilities()
DetectDeviceCapabilities(v, dev) ==
    IF dev.gl # "full"
    THEN [CheckWebGLSupport(v, dev) EXCEPT !.performanceLevel = "low"]
    ELSE IF IsLowEnd(dev)
    THEN [v EXCEPT
            !.performanceLevel = "low",
            !.galaxyConfig =
                [starCount |-> Min(@.starCount, 10 * Unit),
                 particleSize |-> Max(@.particleSize, 150)]]
    ELSE IF IsMidRange(dev)
    THEN [v EXCEPT
            !.performanceLevel = "medium",
            !.galaxyConfig = [@ EXCEPT !.starCount = Min(@, 20 * Unit)]]
    ELSE [v EXCEPT !.performanceLevel = "high"]

\* createGalaxy(): a new mesh whose material has size particleSize, and
\* the rotation data of its stars
CreateGalaxy(v) ==
    [v EXCEPT !.galaxyMesh = TRUE,
              !.pointSize = v.galaxyConfig.particleSize,
              !.starData = TRUE,
              !.generatedFrom = v.galaxyConfig,
              !.rotatedBy = 0]

\* initializeScene()
InitializeScene(v, dev) ==
    IF ~dev.rendererWorks
    THEN [v EXCEPT !.scene = TRUE,
                   !.isWebGLAvailable = FALSE,
                   !.webGLErrorMessage = "renderer failed"]
    ELSE CreateGalaxy(
             [v EXCEPT !.scene = TRUE, !.renderer = TRUE, !.controls = TRUE,
                       !.pixelRatio = Min(dev.devicePixelRatio, 2 * Unit)])

\* updateGalaxyRotation(deltaTime): starData.angles[i] +=
\* angularVelocity * deltaTime for every star
UpdateGalaxyRotation(v, deltaTime) ==
    IF ~v.starData \/ ~v.galaxyMesh THEN v
    ELSE [v EXCEPT !.rotatedBy = @ + deltaTime]

\* animate(currentTime), id being what requestAnimationFrame returned: the
\* component as it is when renderer.render is reached
AnimateViewer(v, currentTime, id, devicePixelRatio) ==
    LET measured ==
            UpdatePerformanceMetrics(
                [v EXCEPT !.animationId = id, !.lastTime = currentTime],
                currentTime, devicePixelRatio)
    IN  IF currentTime - v.lastTime > 0
        THEN UpdateGalaxyRotation(measured, currentTime - v.lastTime)
        ELSE measured

\* handleResize()
HandleResize(v, devicePixelRatio) ==
    IF ~v.scene \/ ~v.renderer THEN v
    ELSE [v EXCEPT !.pixelRatio = PixelRatioFor(v.performanceLevel,
                                               devicePixelRatio)]

\* cleanup(): the references it clears; renderer is kept
Cleanup(v) ==
    [v EXCEPT !.scene = FALSE, !.controls = FALSE, !.galaxyMesh = FALSE,
              !.starData = FALSE]

(***************************************************************************)
(* State.                                                                  *)
(***************************************************************************)
VARIABLES
    velCalls,       \* calls of calculateAngularVelocity made so far:
                    \* <<[radius, rotationSpeed, result], ...>>
    genConfig,      \* the config handed to the generator
    genPc,          \* "start", then "arms" once generateSpiralArms returned
    genResult,      \* {positions, colors, sizes} the generator returned
    bulgeConfig,    \* the config handed to addCentralBulge
    bulgeStars,     \* its bulgeStars argument
    bulgeArrays,    \* {positions, colors, sizes} handed to it, which it extends
    bulgePc,        \* "start", then "bulge" once addCentralBulge returned
    bulgeBefore,    \* history: bulgeArrays as they were handed over
    cmpConfigs,     \* <<a, b>>: two configs handed to generateSpiralArms
    cmpPc,          \* "start", then "done" once both calls returned
    cmpResults,     \* <<result for a, result for b>>, the draws being equal
    lodCamera,      \* the camera position handed to the optimizer
    lodStar,        \* the position of the star it classifies
    lodPc,          \* "start", then "done" once the star is classified
    lodMeshes,      \* level -> the optimizer's instanced mesh of it
    \* GalaxyRenderer
    constructed,        \* the constructor has run
    galaxyConfig,
    positions, colors, sizes, rotationRadii, angularVelocities,
    animationFrameId,   \* 0 for null
    frameCount, lastFpsTime, fps, lowPerformanceMode,
    pixelRatio,         \* renderer.getPixelRatio()
    cameraPosition,     \* camera.position
    cameraAspect,       \* camera.aspect
    meshes,             \* level -> the optimizer's instanced mesh of it
    released,           \* resource -> times its dispose() was called
    \* the browser
    now,                \* clock.getElapsedTime(), in 1/Unit s
    frameInterval,      \* the time from one animation frame to the next
    pendingFrames,      \* ids of the animation frames requested, not yet run
    intervalDue,        \* when the setInterval callback runs next; 0: no timer
    resizeListeners,    \* 'resize' listeners registered on window
    \* history
    disposeCalls,       \* calls of dispose() so far
    lastOp,             \* the handler that ran last
    tickThrew,          \* the last animate() ended in a TypeError
    generatedRadii,     \* tracked star -> its axis distance when generated
    generatedY,         \* tracked star -> its y when generated
    generatedAngles,    \* tracked star -> its angle about the axis when
                        \* generated
    \* the optimizer over several frames
    batchPositions,     \* the positions array of the latest frame
    batchMeshes,        \* level -> the optimizer's instanced mesh of it
    batchFrames,        \* calls of optimizeStarRendering so far
    \* GalaxyViewer
    viewer,             \* the component's variables, its renderer's pixel
                        \* ratio and its material's point size
    device,             \* the device and browser the component runs on
    page                \* the page: time, animation frames requested,
                        \* resize listeners, the handler that ran last

velVars == <<velCalls>>
genVars == <<genConfig, genPc, genResult>>
bulgeVars == <<bulgeConfig, bulgeStars, bulgeArrays, bulgePc, bulgeBefore>>
cmpVars == <<cmpConfigs, cmpPc, cmpResults>>
lodVars == <<lodCamera, lodStar, lodPc, lodMeshes>>
batchVars == <<batchPositions, batchMeshes, batchFrames>>
viewerVars == <<viewer, device, page>>
starVars == <<positions, colors, sizes, rotationRadii, angularVelocities,
              generatedRadii, generatedY, generatedAngles>>
loopVars == <<animationFrameId, pendingFrames, frameCount, lastFpsTime, fps,
              tickThrew>>
renVars == <<constructed, galaxyConfig, starVars, loopVars,
             lowPerformanceMode, pixelRatio, cameraPosition, cameraAspect,
             meshes, released, now, frameInterval, intervalDue,
             resizeListeners, disposeCalls, lastOp>>
vars == <<velVars, genVars, bulgeVars, cmpVars, lodVars, renVars,
          batchVars, viewerVars>>

(***************************************************************************)
(* SpecVel: calculateAngularVelocity applied to inputs drawn from          *)
(* VelRadii x VelSpeeds, up to MaxVelCalls times, each call recorded.      *)
(***************************************************************************)
MaxVelCalls == 2

\* radii: 0, the core, both edges of the plateau, the outer region
VelRadii == {0, 2 * Unit, 4 * Unit, 10 * Unit - 1, 10 * Unit, 25 * Unit,
             30 * Unit - 1, 30 * Unit, 35 * Unit, 40 * Unit, 80 * Unit,
             160 * Unit, 240 * Unit}

\* rotation speeds of the slider (0 .. 0.5): 0, the default 0.1, multiples
VelSpeeds == {0, 100, 200, 300, 500}

DefaultConfig ==
    [starCount |-> 25000, armCount |-> 4, galaxyRadius |-> 100 * Unit,
     rotationSpeed |-> 100, coreSize |-> 3500,
     starColors |-> <<HexWhite, HexWarmWhite, HexCoolBlue>>,
     particleSize |-> 100, brightness |-> Unit]

VelIdle == velCalls = <<>>
GenIdle == genConfig = DefaultConfig /\ genPc = "start" /\ genResult = NoStars
BulgeIdle ==
    /\ bulgeConfig = DefaultConfig /\ bulgeStars = 0 /\ bulgePc = "start"
    /\ bulgeArrays = NoStars /\ bulgeBefore = NoStars
CmpIdle ==
    /\ cmpConfigs = <<DefaultConfig, DefaultConfig>> /\ cmpPc = "start"
    /\ cmpResults = <<NoStars, NoStars>>

Resources == {"renderer", "starGeometry", "starMaterial", "textureAtlas"}

\* camera.position.set(0, 30, 100); the container is 16:9 at first
InitialCameraPosition == <<0, 30 * Unit, 100 * Unit>>
InitialAspect == (16 * Unit) \div 9

\* no star classified yet
LodIdle ==
    /\ lodCamera = InitialCameraPosition /\ lodStar = Origin
    /\ lodPc = "start" /\ lodMeshes = NoMeshes

\* no frame optimized yet
BatchIdle ==
    /\ batchPositions = EmptyArray /\ batchMeshes = NoMeshes
    /\ batchFrames = 0

\* the component not yet mounted, on the desktop
ViewerIdle ==
    /\ viewer = NewViewer(DefaultViewerConfig)
    /\ device = Desktop
    /\ page = NewPage(25)

\* time between two animation frames
TickSteps == {Unit \div 2}

\* the display's frame interval in all but SpecQuality
PaceIdle == frameInterval \in TickSteps

\* the fields before the constructor has run
RenIdle ==
    /\ constructed = FALSE
    /\ galaxyConfig = DefaultConfig
    /\ positions = EmptyArray /\ colors = EmptyArray /\ sizes = EmptyArray
    /\ rotationRadii = EmptyArray /\ angularVelocities = EmptyArray
    /\ generatedRadii = <<>> /\ generatedY = <<>> /\ generatedAngles = <<>>
    /\ animationFrameId = 0 /\ pendingFrames = {}
    /\ frameCount = 0 /\ lastFpsTime = 0 /\ fps = 0 /\ tickThrew = FALSE
    /\ lowPerformanceMode = FALSE
    /\ pixelRatio = Unit
    /\ cameraPosition = InitialCameraPosition /\ cameraAspect = InitialAspect
    /\ meshes = NoMeshes
    /\ released = [r \in Resources |-> 0]
    /\ now = 0 /\ intervalDue = 0 /\ resizeListeners = 0
    /\ disposeCalls = 0 /\ lastOp = "none"

InitVel ==
    /\ VelIdle /\ GenIdle /\ BulgeIdle /\ CmpIdle /\ LodIdle
    /\ BatchIdle /\ ViewerIdle
    /\ RenIdle /\ PaceIdle

CallVelocity ==
    /\ Len(velCalls) < MaxVelCalls
    /\ \E radius \in VelRadii, rotationSpeed \in VelSpeeds :
          velCalls' = Append(velCalls,
              [radius |-> radius, rotationSpeed |-> rotationSpeed,
               result |-> CalculateAngularVelocity(radius, rotationSpeed)])
    /\ UNCHANGED <<genVars, bulgeVars, cmpVars, lodVars, renVars,
                   batchVars, viewerVars>>

NextVel == CallVelocity

SpecVel == InitVel /\ [][NextVel]_vars

(***************************************************************************)
(* Claims about calculateAngularVelocity (checked under SpecVel).          *)
(***************************************************************************)
VelCallPairs == (1..Len(velCalls)) \X (1..Len(velCalls))

C9_StrictlyDecreasingAnySpeed ==
    \A p \in VelCallPairs :
        LET a == velCalls[p[1]]
            b == velCalls[p[2]]
        IN  (/\ a.rotationSpeed = b.rotationSpeed
             /\ 30 * Unit <= a.radius /\ a.radius < b.radius)
            => a.result > b.result

\* C9 amended: for every s > 0 and 30 <= r1 < r2, v(r1, s) > v(r2, s);
\* at s = 0 both results are 0.
C9_StrictlyDecreasingPositiveSpeed ==
    \A p \in VelCallPairs :
        LET a == velCalls[p[1]]
            b == velCalls[p[2]]
        IN  (/\ a.rotationSpeed = b.rotationSpeed
             /\ 30 * Unit <= a.radius /\ a.radius < b.radius)
            => /\ (a.rotationSpeed > 0 => a.result > b.result)
               /\ (a.rotationSpeed = 0 => a.result = 0 /\ b.result = 0)

\* C9 witness: two outer radii evaluated at the same positive speed
C9_Witness ==
    \E p \in VelCallPairs :
        /\ velCalls[p[1]].radius = 40 * Unit
        /\ velCalls[p[2]].radius = 80 * Unit
        /\ velCalls[p[1]].rotationSpeed = 100
        /\ velCalls[p[2]].rotationSpeed = 100
        /\ velCalls[p[1]].result > velCalls[p[2]].result

\* C10: at a fixed radius the result is linear in rotationSpeed:
\* v(r, k*s) = k * v(r, s), in the core, on the plateau and beyond 30.
C10_LinearInSpeed ==
    \A p \in VelCallPairs :
        LET a == velCalls[p[1]]
            b == velCalls[p[2]]
        IN  \A k \in 0..5 :
              (a.radius = b.radius /\ b.rotationSpeed = k * a.rotationSpeed)
              => b.result = k * a.result

\* C10 witness: the speed doubled at an outer radius, with a non-zero result
C10_Witness ==
    \E p \in VelCallPairs :
        /\ velCalls[p[1]].radius = 80 * Unit
        /\ velCalls[p[2]].radius = 80 * Unit
        /\ velCalls[p[1]].rotationSpeed = 100
        /\ velCalls[p[2]].rotationSpeed = 200
        /\ velCalls[p[2]].result = 2 * velCalls[p[1]].result
        /\ velCalls[p[1]].result > 0

(***************************************************************************)
(* SpecGen: generateSpiralArms applied to a config of GenConfigs with      *)
(* every star tracked, the random draws taken from SpiralDraws.            *)
(***************************************************************************)
MaxStarCount == 2

\* each Math.random() result ranges over the ends (and middle) of [0, 1)
SpiralDraws ==
    [arm : {0, 999}, rad : {0, 500, 999}, angVar : {250},
     radVar : {0, 999}, yv : {250}, c1 : {0, 999}, c2 : {0}, sz : {500}]

\* arm counts and radii: a small galaxy, the smallest with 1.2 R >= R + 5,
\* and the default
GenShapes == {<<1, 10 * Unit>>, <<2, 25 * Unit>>, <<4, 100 * Unit>>}

GenConfigs ==
    {[DefaultConfig EXCEPT !.starCount = n, !.armCount = g[1],
                           !.galaxyRadius = g[2]] :
        n \in 0..MaxStarCount, g \in GenShapes}

InitGen ==
    /\ genConfig \in GenConfigs
    /\ genPc = "start"
    /\ genResult = NoStars
    /\ VelIdle /\ BulgeIdle /\ CmpIdle /\ LodIdle
    /\ BatchIdle /\ ViewerIdle
    /\ RenIdle /\ PaceIdle

CallGenerateSpiralArms ==
    /\ genPc = "start"
    /\ \E draws \in [1..genConfig.starCount -> SpiralDraws] :
          genResult' = GenerateSpiralArms(genConfig, DefaultTightness, draws)
    /\ genPc' = "arms"
    /\ UNCHANGED <<genConfig, velVars, bulgeVars, cmpVars, lodVars, renVars,
                   batchVars, viewerVars>>

NextGen == CallGenerateSpiralArms

SpecGen == InitGen /\ [][NextGen]_vars

(***************************************************************************)
(* Claims about generateSpiralArms (checked under SpecGen).                *)
(***************************************************************************)
\* star k's (k from 0) distance from the vertical axis in a result
AxisDistance(xyz, k) ==
    Hypot(At(xyz, 3 * k), At(xyz, 3 * k + 2))

\* C1: for starCount >= 0 (0 included), generateSpiralArms returns positions
\* and colors of length 3*starCount and sizes of length starCount, whatever
\* the draws.
C1_ResultLengths ==
    genPc = "arms" =>
        /\ genResult.positions.len = 3 * genConfig.starCount
        /\ Len(genResult.positions.data) = 3 * genConfig.starCount
        /\ genResult.colors.len = 3 * genConfig.starCount
        /\ Len(genResult.colors.data) = 3 * genConfig.starCount
        /\ genResult.sizes.len = genConfig.starCount
        /\ Len(genResult.sizes.data) = genConfig.starCount

\* C1 witness: a result for two stars
C1_Witness ==
    /\ genPc = "arms"
    /\ genConfig.starCount = 2
    /\ Len(genResult.positions.data) = 6

\* C3 as stated: for any positive galaxyRadius every star lies within
\* 1.2 * galaxyRadius of the vertical axis
C3_WithinRadiusAnyConfig ==
    genPc = "arms" =>
        \A k \in 0..(genConfig.starCount - 1) :
            AxisDistance(genResult.positions, k)
                <= Mul(genConfig.galaxyRadius, 1200)

\* C3 amended: for galaxyRadius >= 25 every star lies within
\* 1.2 * galaxyRadius of the vertical axis (the jitter is at most 5 units,
\* whatever the radius)
C3_WithinRadiusFrom25 ==
    (genPc = "arms" /\ genConfig.galaxyRadius >= 25 * Unit) =>
        \A k \in 0..(genConfig.starCount - 1) :
            AxisDistance(genResult.positions, k)
                <= Mul(genConfig.galaxyRadius, 1200)

\* C3 witness: a star the jitter pushed beyond galaxyRadius, R >= 25
C3_Witness ==
    /\ genPc = "arms"
    /\ genConfig.galaxyRadius >= 25 * Unit
    /\ \E k \in 0..(genConfig.starCount - 1) :
          AxisDistance(genResult.positions, k) > genConfig.galaxyRadius

(***************************************************************************)
(* SpecBulge: addCentralBulge applied to a config of BulgeConfigs, to      *)
(* sequences that are empty or hold one spiral star, and to a count up to  *)
(* MaxBulgeStars, the random draws taken from BulgeDraws.                  *)
(***************************************************************************)
MaxBulgeStars == 2

\* each Math.random() result ranges over ends (and middle) of [0, 1)
BulgeDraws ==
    [r1 : {0, 999}, r2 : {999}, theta : {0, 400}, phi : {0, 500, 999},
     c : {500}, sz : {0, 999}]

\* coreSize 0, the default 3.5 and 20; particleSize the default 0.1 and 0.5
BulgeConfigs ==
    {[DefaultConfig EXCEPT !.coreSize = c, !.particleSize = p] :
        c \in {0, 3500, 20 * Unit}, p \in {100, 500}}

\* the sequences handed over: empty, or generateSpiralArms' for one star
BulgeInputs(config) ==
    {NoStars}
    \cup {GenerateSpiralArms([config EXCEPT !.starCount = 1],
                             DefaultTightness, <<d>>) :
             d \in [arm : {0}, rad : {500}, angVar : {250}, radVar : {500},
                    yv : {250}, c1 : {0}, c2 : {0}, sz : {500}]}

InitBulge ==
    /\ bulgeConfig \in BulgeConfigs
    /\ bulgeStars \in 0..MaxBulgeStars
    /\ bulgeArrays \in BulgeInputs(bulgeConfig)
    /\ bulgeBefore = bulgeArrays
    /\ bulgePc = "start"
    /\ VelIdle /\ GenIdle /\ CmpIdle /\ LodIdle
    /\ BatchIdle /\ ViewerIdle
    /\ RenIdle /\ PaceIdle

CallAddCentralBulge ==
    /\ bulgePc = "start"
    /\ \E draws \in [1..bulgeStars -> BulgeDraws] :
          bulgeArrays' = AddCentralBulge(bulgeConfig, bulgeArrays, bulgeStars,
                                         draws)
    /\ bulgePc' = "bulge"
    /\ UNCHANGED <<bulgeConfig, bulgeStars, bulgeBefore, velVars, genVars,
                   cmpVars, lodVars, renVars,
                   batchVars, viewerVars>>

NextBulge == CallAddCentralBulge

SpecBulge == InitBulge /\ [][NextBulge]_vars

(***************************************************************************)
(* Claims about addCentralBulge (checked under SpecBulge).                 *)
(***************************************************************************)
\* arr extends old by exactly n entries, the entries of old kept in place
ExtendsBy(arr, old, n) ==
    /\ arr.len = old.len + n
    /\ Len(arr.data) = Len(old.data) + n
    /\ SubSeq(arr.data, 1, Len(old.data)) = old.data

\* the stars addCentralBulge appended: their indices (from 0) in the result
AppendedStars == bulgeBefore.sizes.len .. (bulgeArrays.sizes.len - 1)

\* star k's (k from 0) 3D distance from the origin in a positions array
OriginDistance(xyz, k) ==
    Hypot3(At(xyz, 3 * k), At(xyz, 3 * k + 1), At(xyz, 3 * k + 2))

\* C11: addCentralBulge is append-only: the entries handed over stay where
\* they are, exactly 3N positions, 3N colour values and N sizes are appended,
\* and with N = 0 the sequences come back unchanged.
C11_AppendOnly ==
    bulgePc = "bulge" =>
        /\ ExtendsBy(bulgeArrays.positions, bulgeBefore.positions,
                     3 * bulgeStars)
        /\ ExtendsBy(bulgeArrays.colors, bulgeBefore.colors, 3 * bulgeStars)
        /\ ExtendsBy(bulgeArrays.sizes, bulgeBefore.sizes, bulgeStars)
        /\ (bulgeStars = 0 => bulgeArrays = bulgeBefore)

\* C11 witness: two stars appended to sequences that held one
C11_Witness ==
    /\ bulgePc = "bulge"
    /\ bulgeStars = 2
    /\ bulgeBefore.sizes.len = 1
    /\ bulgeArrays.sizes.len = 3
    /\ bulgeArrays.positions.data[1] = bulgeBefore.positions.data[1]

\* C12: every appended star lies within coreSize * 1.2 of the origin (3D
\* distance), for every coreSize >= 0 and whatever the draws.
C12_WithinCore ==
    bulgePc = "bulge" =>
        \A k \in AppendedStars :
            OriginDistance(bulgeArrays.positions, k)
                <= Mul(bulgeConfig.coreSize, 1200)

\* C12 witness: an appended star off the centre, further than half coreSize
C12_Witness ==
    /\ bulgePc = "bulge"
    /\ \E k \in AppendedStars :
          2 * OriginDistance(bulgeArrays.positions, k)
              > bulgeConfig.coreSize
    /\ bulgeConfig.coreSize > 0

\* C13: every appended star's size is strictly greater than particleSize,
\* for every positive particleSize.
C13_LargerThanParticle ==
    bulgePc = "bulge" =>
        \A k \in AppendedStars :
            At(bulgeArrays.sizes, k) > bulgeConfig.particleSize

\* C13 witness: an appended star of the smallest size, 1.5 * particleSize
C13_Witness ==
    /\ bulgePc = "bulge"
    /\ \E k \in AppendedStars :
          At(bulgeArrays.sizes, k) = Mul(bulgeConfig.particleSize, 1500)

(***************************************************************************)
(* SpecCmp: generateSpiralArms called twice with the same random draws, on *)
(* the two configs of a pair of CmpPairs: configs that differ in their     *)
(* brightness only (0.5 and 2.0), or in their armCount only (1 and a value *)
(* <= 0).                                                                  *)
(***************************************************************************)
MaxCmpStars == 2

\* a star of the core, of the mid region and of the outer region; the colour
\* draws at both ends
CmpDraws ==
    [arm : {0, 999}, rad : {100, 500, 900}, angVar : {250}, radVar : {500},
     yv : {250}, c1 : {0, 999}, c2 : {0}, sz : {500}]

HexBlack == <<0, 0, 0>>

\* starColors: the default palette, black alone, black and white
CmpStarColors ==
    {DefaultConfig.starColors, <<HexBlack>>, <<HexBlack, HexWhite>>}

BrightnessPairs ==
    {<<[DefaultConfig EXCEPT !.starCount = n, !.starColors = p,
                             !.brightness = Unit \div 2],
       [DefaultConfig EXCEPT !.starCount = n, !.starColors = p,
                             !.brightness = 2 * Unit]>> :
        n \in 0..MaxCmpStars, p \in CmpStarColors}

ArmCountPairs ==
    {<<[DefaultConfig EXCEPT !.starCount = n, !.armCount = 1],
       [DefaultConfig EXCEPT !.starCount = n, !.armCount = k]>> :
        n \in 1..MaxCmpStars, k \in {0, -2}}

CmpPairs == BrightnessPairs \cup ArmCountPairs

InitCmp ==
    /\ cmpConfigs \in CmpPairs
    /\ cmpPc = "start"
    /\ cmpResults = <<NoStars, NoStars>>
    /\ VelIdle /\ GenIdle /\ BulgeIdle /\ LodIdle
    /\ BatchIdle /\ ViewerIdle
    /\ RenIdle /\ PaceIdle

CallGenerateSpiralArmsTwice ==
    /\ cmpPc = "start"
    /\ \E draws \in [1..cmpConfigs[1].starCount -> CmpDraws] :
          cmpResults' =
              <<GenerateSpiralArms(cmpConfigs[1], DefaultTightness, draws),
                GenerateSpiralArms(cmpConfigs[2], DefaultTightness, draws)>>
    /\ cmpPc' = "done"
    /\ UNCHANGED <<cmpConfigs, velVars, genVars, bulgeVars, lodVars, renVars,
                   batchVars, viewerVars>>

NextCmp == CallGenerateSpiralArmsTwice

SpecCmp == InitCmp /\ [][NextCmp]_vars

(***************************************************************************)
(* Claims about generateSpiralArms on two configs (checked under SpecCmp). *)
(***************************************************************************)
RECURSIVE SumOf(_)
SumOf(seq) == IF seq = <<>> THEN 0 ELSE Head(seq) + SumOf(Tail(seq))

\* the mean of (r + g + b) / 3 over the stars of a is strictly greater than
\* over the stars of b; the mean over no star is NaN, which compares false
GreaterMeanIntensity(a, b) ==
    /\ a.len # 0 /\ b.len # 0
    /\ SumOf(a.data) * b.len > SumOf(b.data) * a.len

\* the pair's configs differ in brightness only: 0.5 and 2.0
BrightnessOnly ==
    /\ cmpConfigs[1].brightness = Unit \div 2
    /\ cmpConfigs[2] = [cmpConfigs[1] EXCEPT !.brightness = 2 * Unit]

\* the pair's configs differ in armCount only: 1 and a value <= 0
ArmCountOnly ==
    /\ cmpConfigs[2].armCount <= 0
    /\ cmpConfigs[1] = [cmpConfigs[2] EXCEPT !.armCount = 1]

NoBlack(starColors) ==
    \A i \in 1..Len(starColors) : starColors[i] # HexBlack

\* C14 as stated: for any non-empty starColors (and any starCount), the
\* mean colour intensity with brightness 2.0 is strictly greater than with
\* brightness 0.5, all else and all draws equal
C14_BrighterAnyConfig ==
    (cmpPc = "done" /\ BrightnessOnly) =>
        GreaterMeanIntensity(cmpResults[2].colors, cmpResults[1].colors)

\* C14 amended: with at least one star and no black entry in starColors,
\* the mean colour intensity with brightness 2.0 is strictly greater than
\* with brightness 0.5; with at least one star it is never smaller.
C14_BrighterWhenLit ==
    (cmpPc = "done" /\ BrightnessOnly /\ cmpConfigs[1].starCount >= 1) =>
        /\ NoBlack(cmpConfigs[1].starColors) =>
              GreaterMeanIntensity(cmpResults[2].colors, cmpResults[1].colors)
        /\ ~GreaterMeanIntensity(cmpResults[1].colors, cmpResults[2].colors)

\* C14 witness: two stars of the default palette, brighter at 2.0
C14_Witness ==
    /\ cmpPc = "done" /\ BrightnessOnly
    /\ cmpConfigs[1].starCount = 2
    /\ NoBlack(cmpConfigs[1].starColors)
    /\ SumOf(cmpResults[1].colors.data) > 0
    /\ GreaterMeanIntensity(cmpResults[2].colors, cmpResults[1].colors)

\* C18: called with armCount <= 0, generateSpiralArms returns what it
\* returns for armCount = 1: 3*starCount position values, none of them NaN.
C18_ArmCountGuarded ==
    (cmpPc = "done" /\ ArmCountOnly) =>
        /\ cmpResults[2] = cmpResults[1]
        /\ cmpResults[2].positions.len = 3 * cmpConfigs[2].starCount
        /\ \A k \in 1..Len(cmpResults[2].positions.data) :
              cmpResults[2].positions.data[k] # NaN

(***************************************************************************)
(* SpecLod: optimizeStarRendering applied, with no mesh cached yet, to one *)
(* star of LodStars seen by a camera of LodCameras that looks at the       *)
(* origin.                                                                 *)
(***************************************************************************)
\* the orchestrator's camera position, and two on the z axis
LodCameras == {InitialCameraPosition, <<0, 0, 100 * Unit>>,
               <<0, 0, 500 * Unit>>}

\* distances from the camera: 0, either side of the near plane, of each LOD
\* threshold and of the cutoff
LodDepths == {0, Near - 1, Near, 50 * Unit - 1, 50 * Unit, 100 * Unit - 1,
              100 * Unit, 200 * Unit - 1, 200 * Unit, 400 * Unit - 1,
              400 * Unit, 800 * Unit, 800 * Unit + 1, 900 * Unit}

\* stars on the line from the camera towards -z, and beside it
LodStars(camera) ==
    {<<camera[1] + x, camera[2], camera[3] - d>> :
        x \in {0, 10 * Unit, 1000 * Unit}, d \in LodDepths}

InitLod ==
    /\ lodCamera \in LodCameras
    /\ lodStar \in LodStars(lodCamera)
    /\ lodPc = "start"
    /\ lodMeshes = NoMeshes
    /\ VelIdle /\ GenIdle /\ BulgeIdle /\ CmpIdle
    /\ BatchIdle /\ ViewerIdle
    /\ RenIdle /\ PaceIdle

CallOptimizeStarRendering ==
    /\ lodPc = "start"
    /\ lodMeshes' = OptimizeStarRendering(lodMeshes, lodCamera, InitialAspect,
                                          [len |-> 3, data |-> lodStar])
    /\ lodPc' = "done"
    /\ UNCHANGED <<lodCamera, lodStar, velVars, genVars, bulgeVars, cmpVars,
                   renVars,
                   batchVars, viewerVars>>

NextLod == CallOptimizeStarRendering

SpecLod == InitLod /\ [][NextLod]_vars

(***************************************************************************)
(* Claims about the optimizer's classification (checked under SpecLod).    *)
(***************************************************************************)
\* the star's distance to the camera
LodStarDistance == DistanceTo(lodStar, lodCamera)

\* the star passes the frustum test
LodStarVisible ==
    IsPointVisible(Frustum(lodCamera, InitialAspect), lodStar)

\* the star was put into the bucket of level l and submitted with it
InBucket(l) ==
    /\ lodMeshes[l].inScene
    /\ lodMeshes[l].count = 1
    /\ lodMeshes[l].written = <<0>>

\* the level the thresholds (50, 100, 200, 400) give distance d: the index
\* of the first threshold strictly greater than d, 4 if there is none
IsLevelOf(l, d) ==
    LET thresholds == <<50 * Unit, 100 * Unit, 200 * Unit, 400 * Unit>>
    IN  /\ (l < 4 => d < thresholds[l + 1])
        /\ (l > 0 => d >= thresholds[l])

\* C15: a star is put into a bucket iff its distance d to the camera is
\* <= 800 and it passes the frustum test; its bucket is the one of the first
\* threshold strictly greater than d, bucket 4 for d >= 400, and no other.
C15_BucketByDistance ==
    lodPc = "done" =>
        \A l \in Levels :
            InBucket(l) <=> /\ LodStarDistance <= 2 * 400 * Unit
                            /\ LodStarVisible
                            /\ IsLevelOf(l, LodStarDistance)

\* C15 witness: a visible star exactly at the first threshold, in bucket 1
C15_Witness ==
    /\ lodPc = "done"
    /\ LodStarDistance = 50 * Unit
    /\ LodStarVisible
    /\ InBucket(1)

\* C16 as stated: a star at the camera position passes the frustum test and
\* is classified into level 0
C16_AtCameraVisible ==
    (lodPc = "done" /\ lodStar = lodCamera) =>
        /\ LodStarVisible
        /\ InBucket(0)

\* C16 amended: a star at the camera position is at distance 0, which
\* getLODLevel maps to level 0, but it lies before the near plane: it fails
\* the frustum test and is put into no bucket.  A star straight ahead at the
\* near plane passes the test and is in bucket 0.
C16_AtCameraCulled ==
    lodPc = "done" =>
        /\ lodStar = lodCamera =>
              /\ GetLODLevel(LodStarDistance) = 0
              /\ ~LodStarVisible
              /\ \A l \in Levels : ~InBucket(l)
        /\ lodStar = <<lodCamera[1], lodCamera[2], lodCamera[3] - Near>> =>
              (lodCamera[2] = 0 => LodStarVisible /\ InBucket(0))

\* C16 witness: a star at the camera position, classified
C16_Witness ==
    /\ lodPc = "done"
    /\ lodStar = lodCamera
    /\ LodStarDistance = 0

(***************************************************************************)
(* Spec: one GalaxyRenderer in its browser.  The constructor, the          *)
(* animation frame callback, updateConfig, the setInterval callback of     *)
(* monitorPerformance, the resize listener and dispose.  The star arrays   *)
(* carry their length and the entries of their first MaxTracked spiral     *)
(* stars.                                                                  *)
(***************************************************************************)
MaxTracked == 1
MaxTime == 5500
MaxDisposeCalls == 2

\* setInterval(..., 5000)
IntervalPeriod == 5 * Unit

\* window.devicePixelRatio
DevicePixelRatio == 3 * Unit

\* starCount > 10000
ReduceStarsAbove == 10 * Unit

RenderConfigs ==
    {[DefaultConfig EXCEPT !.starCount = 1],
     [DefaultConfig EXCEPT !.starCount = 12 * Unit, !.rotationSpeed = 200]}

\* a star at the centre and one in mid-disk, both off the galactic plane
RenderDraws ==
    [arm : {0}, rad : {0, 500}, angVar : {500}, radVar : {500}, yv : {999},
     c1 : {0}, c2 : {0}, sz : {500}]

RenderDrawSeqs(config) == [1..Min(config.starCount, MaxTracked) -> RenderDraws]

\* the container's aspect ratios: 16:9 and square
Aspects == {InitialAspect, Unit}

\* the id requestAnimationFrame returns: one not in use
FreshFrameIds(pending) ==
    {id \in 1..(Cardinality(pending) + 2) :
        id \notin pending /\ id # animationFrameId}
RequestAnimationFrame(pending) ==
    CHOOSE id \in FreshFrameIds(pending) :
        \A other \in FreshFrameIds(pending) : id <= other

\* mutant: the frame request stays pending
CancelAnimationFrame_Forgotten(pending, id) == pending

\* cancelAnimationFrame(id)
CancelAnimationFrame(pending, id) == pending \ {id}

\* the stars' axis distances in a freshly generated positions array
AxisDistances(xyz) ==
    [i \in 1..TrackedStars(xyz) |->
        Hypot(At(xyz, 3 * (i - 1)), At(xyz, 3 * (i - 1) + 2))]

\* the stars' y coordinates in a positions array
YCoordinates(xyz) ==
    [i \in 1..TrackedStars(xyz) |-> At(xyz, 3 * (i - 1) + 1)]

\* the stars' angles about the vertical axis, Math.atan2(z, x)
AxisAngles(xyz) ==
    [i \in 1..TrackedStars(xyz) |->
        Atan2(At(xyz, 3 * (i - 1) + 2), At(xyz, 3 * (i - 1)))]

\* mutant: the tick requests a second frame
ScheduleFrame_Twice(pending, id) ==
    /\ animationFrameId' = id
    /\ pendingFrames' = pending \cup {id, id + Cardinality(pending) + 3}

\* this.animationFrameId = requestAnimationFrame(() => this.animate())
ScheduleFrame(pending, id) ==
    /\ animationFrameId' = id
    /\ pendingFrames' = pending \cup {id}

\* mutant: the scene is rendered before the positions are rotated
Animate_StaleRender(elapsedTime, g, pending) ==
    /\ ScheduleFrame(pending, RequestAnimationFrame(pending))
    /\ positions' = UpdateStarPositions(g.positions, g.rotationRadii,
                                        g.angularVelocities, elapsedTime)
    /\ meshes' = OptimizeStarRendering(meshes, cameraPosition, cameraAspect,
                                       g.positions)
    /\ IF elapsedTime - lastFpsTime >= Unit
       THEN /\ fps' = frameCount + 1
            /\ frameCount' = 0
            /\ lastFpsTime' = elapsedTime
            /\ tickThrew' = TRUE
       ELSE /\ frameCount' = frameCount + 1
            /\ tickThrew' = FALSE
            /\ UNCHANGED <<fps, lastFpsTime>>

\* animate() at elapsedTime, the star arrays being g's, the frames pending
\* being pending
Animate(elapsedTime, g, pending) ==
    /\ ScheduleFrame(pending, RequestAnimationFrame(pending))
    /\ positions' = UpdateStarPositions(g.positions, g.rotationRadii,
                                        g.angularVelocities, elapsedTime)
    /\ meshes' = OptimizeStarRendering(meshes, cameraPosition, cameraAspect,
                                       positions')
    /\ IF elapsedTime - lastFpsTime >= Unit
       THEN /\ fps' = frameCount + 1
            /\ frameCount' = 0
            /\ lastFpsTime' = elapsedTime
            /\ tickThrew' = TRUE    \* adjustQualityBasedOnPerformance is
                                    \* not a function
       ELSE /\ frameCount' = frameCount + 1
            /\ tickThrew' = FALSE
            /\ UNCHANGED <<fps, lastFpsTime>>

\* the rotation state generateGalaxy() leaves, and the colors and sizes
SetRotationState(g) ==
    /\ colors' = g.colors
    /\ sizes' = g.sizes
    /\ rotationRadii' = g.rotationRadii
    /\ angularVelocities' = g.angularVelocities
    /\ generatedRadii' = AxisDistances(g.positions)
    /\ generatedY' = YCoordinates(g.positions)
    /\ generatedAngles' = AxisAngles(g.positions)

\* mutant: the config is stored, the stars are left as they are
ApplyConfig_ConfigOnly(config, spiralDraws) ==
    /\ galaxyConfig' = config
    /\ UNCHANGED starVars

\* this.generateGalaxy(), the arrays it builds being g
SetGalaxy(g) ==
    /\ positions' = g.positions
    /\ SetRotationState(g)

\* updateConfig(config): this.galaxyConfig = config; this.generateGalaxy()
ApplyConfig(config, spiralDraws) ==
    /\ galaxyConfig' = config
    /\ SetGalaxy(GenerateGalaxy(config, spiralDraws, <<>>))

\* updateConfig(config), whatever the draws of its stars
UpdateConfigTo(config) ==
    \E spiralDraws \in RenderDrawSeqs(config) : ApplyConfig(config, spiralDraws)

\* the constructor's generateGalaxy() and animate()
StartGalaxy(g) ==
    /\ SetRotationState(g)
    /\ Animate(0, g, pendingFrames)

\* new GalaxyRenderer(container, config), config one of configs
ConstructWith(configs) ==
    /\ ~constructed
    /\ \E config \in configs :
       \E spiralDraws \in RenderDrawSeqs(config) :
          /\ galaxyConfig' = config
          /\ StartGalaxy(GenerateGalaxy(config, spiralDraws, <<>>))
    /\ constructed' = TRUE
    /\ pixelRatio' = Min(DevicePixelRatio, 2 * Unit)
    /\ resizeListeners' = resizeListeners + 1
    /\ intervalDue' = now + IntervalPeriod
    /\ lastOp' = "construct"
    /\ UNCHANGED <<lowPerformanceMode, cameraPosition, cameraAspect, released,
                   now, disposeCalls, velVars, genVars,
                   bulgeVars, cmpVars, lodVars, frameInterval,
                   batchVars, viewerVars>>

Construct == ConstructWith(RenderConfigs)

\* the animation frame callback, frameInterval after the last frame, up to
\* the time horizon
TickWithin(horizon) ==
    /\ constructed
    /\ \E id \in pendingFrames, dt \in {frameInterval} :
          /\ now + dt <= horizon
          /\ intervalDue = 0 \/ now + dt <= intervalDue
          /\ now' = now + dt
          /\ Animate(now + dt,
                     [positions |-> positions, rotationRadii |-> rotationRadii,
                      angularVelocities |-> angularVelocities],
                     pendingFrames \ {id})
    /\ lastOp' = "animate"
    /\ UNCHANGED <<constructed, galaxyConfig, colors, sizes, rotationRadii,
                   angularVelocities, generatedRadii, generatedY,
                   generatedAngles,
                   lowPerformanceMode,
                   pixelRatio, cameraPosition, cameraAspect, released,
                   intervalDue, resizeListeners, disposeCalls,
                   velVars, genVars,
                   bulgeVars, cmpVars, lodVars, frameInterval,
                   batchVars, viewerVars>>

Tick == TickWithin(MaxTime)

\* renderer.updateConfig(config), which the component calls while it holds
\* the renderer
UpdateConfig ==
    /\ constructed
    /\ disposeCalls = 0
    /\ \E config \in RenderConfigs : UpdateConfigTo(config)
    /\ lastOp' = "updateConfig"
    /\ UNCHANGED <<constructed, loopVars, lowPerformanceMode, pixelRatio,
                   cameraPosition, cameraAspect, meshes, released, now,
                   intervalDue, resizeListeners, disposeCalls,
                   velVars, genVars,
                   bulgeVars, cmpVars, lodVars, frameInterval,
                   batchVars, viewerVars>>

\* mutant: low mode is left as soon as the frame rate is back at 30
LeavesLowMode_NoBand(f, low) == f >= 30 /\ low

\* this.fps > 45 && this.lowPerformanceMode
LeavesLowMode(f, low) == f > 45 /\ low

\* this.fps < 30 && !this.lowPerformanceMode
EntersLowMode(f, low) == f < 30 /\ ~low

\* mutant: the star count is cut to a quarter
ReducedStarCount_Quarter(starCount) == starCount \div 4

\* Math.floor(this.galaxyConfig.starCount * 0.5)
ReducedStarCount(starCount) == starCount \div 2

\* the setInterval callback of monitorPerformance, up to the time horizon
IntervalFireWithin(horizon) ==
    /\ constructed
    /\ intervalDue # 0
    /\ intervalDue <= horizon
    /\ now' = Max(now, intervalDue)
    /\ intervalDue' = intervalDue + IntervalPeriod
    /\ IF EntersLowMode(fps, lowPerformanceMode)
       THEN /\ lowPerformanceMode' = TRUE
            \* applyLowPerformanceSettings()
            /\ pixelRatio' = Unit
            /\ IF galaxyConfig.starCount > ReduceStarsAbove
               THEN UpdateConfigTo(
                        [galaxyConfig EXCEPT
                            !.starCount = ReducedStarCount(@)])
               ELSE UNCHANGED <<galaxyConfig, starVars>>
       ELSE IF LeavesLowMode(fps, lowPerformanceMode)
       THEN /\ lowPerformanceMode' = FALSE
            \* applyNormalPerformanceSettings()
            /\ pixelRatio' = Min(DevicePixelRatio, 2 * Unit)
            /\ UNCHANGED <<galaxyConfig, starVars>>
       ELSE UNCHANGED <<lowPerformanceMode, pixelRatio, galaxyConfig, starVars>>
    /\ lastOp' = "interval"
    /\ UNCHANGED <<constructed, loopVars, cameraPosition, cameraAspect, meshes,
                   released, resizeListeners, disposeCalls, velVars, genVars,
                   bulgeVars, cmpVars, lodVars, frameInterval,
                   batchVars, viewerVars>>

IntervalFire == IntervalFireWithin(MaxTime)

\* the window's resize event: each registered listener runs handleResize
Resize ==
    /\ resizeListeners > 0
    /\ \E aspect \in Aspects \ {cameraAspect} : cameraAspect' = aspect
    /\ lastOp' = "resize"
    /\ UNCHANGED <<constructed, galaxyConfig, starVars, loopVars,
                   lowPerformanceMode, pixelRatio, cameraPosition, meshes,
                   released, now, intervalDue, resizeListeners, disposeCalls,
                   velVars, genVars,
                   bulgeVars, cmpVars, lodVars, frameInterval,
                   batchVars, viewerVars>>

\* renderer.dispose()
Dispose ==
    /\ constructed
    /\ disposeCalls < MaxDisposeCalls
    /\ disposeCalls' = disposeCalls + 1
    /\ pendingFrames' = IF animationFrameId # 0
                        THEN CancelAnimationFrame(pendingFrames, animationFrameId)
                        ELSE pendingFrames
    /\ meshes' = DisposeSceneMeshes(DisposeCachedMeshes(meshes))
    /\ released' = [r \in Resources |-> released[r] + 1]
    \* removeEventListener is handed a new function: no listener goes
    /\ lastOp' = "dispose"
    /\ UNCHANGED <<constructed, galaxyConfig, starVars, animationFrameId,
                   frameCount, lastFpsTime, fps, tickThrew,
                   lowPerformanceMode, pixelRatio, cameraPosition,
                   cameraAspect, now, intervalDue, resizeListeners,
                   velVars, genVars,
                   bulgeVars, cmpVars, lodVars, frameInterval,
                   batchVars, viewerVars>>

Init ==
    /\ VelIdle /\ GenIdle /\ BulgeIdle /\ CmpIdle /\ LodIdle
    /\ BatchIdle /\ ViewerIdle
    /\ RenIdle /\ PaceIdle

Next ==
    \/ Construct
    \/ Tick
    \/ UpdateConfig
    \/ IntervalFire
    \/ Resize
    \/ Dispose

Spec == Init /\ [][Next]_vars

(***************************************************************************)
(* SpecQuality: the renderer over three quality evaluations, at the frame    *)
(* rates of FrameIntervals.  The frames keep their pace between two        *)
(* evaluations; the display's frame interval may change after each.        *)
(***************************************************************************)
MaxQualityTime == 15500

\* star counts the quality controller leaves alone, halves once, and halves
\* twice
QualityConfigs ==
    {[DefaultConfig EXCEPT !.starCount = 10 * Unit],
     [DefaultConfig EXCEPT !.starCount = 12 * Unit, !.rotationSpeed = 200],
     [DefaultConfig EXCEPT !.starCount = 21 * Unit]}

QualityConstruct == ConstructWith(QualityConfigs)

\* frame intervals giving 50, 40, 30 and 25 frames per one-second window
FrameIntervals == {20, 25, 34, 40}

InitQuality ==
    /\ VelIdle /\ GenIdle /\ BulgeIdle /\ CmpIdle /\ LodIdle
    /\ BatchIdle /\ ViewerIdle
    /\ RenIdle
    /\ frameInterval \in FrameIntervals

QualityTick == TickWithin(MaxQualityTime)

\* the frames keep their pace: the timer's callback runs once no frame is
\* due before it
QualityIntervalFire ==
    /\ now + frameInterval > intervalDue
    /\ IntervalFireWithin(MaxQualityTime)

\* the display's frame rate changes once the quality was evaluated
ChangeFrameRate ==
    /\ lastOp = "interval"
    /\ \E dt \in FrameIntervals \ {frameInterval} : frameInterval' = dt
    /\ lastOp' = "frameRate"
    /\ UNCHANGED <<constructed, galaxyConfig, starVars, loopVars,
                   lowPerformanceMode, pixelRatio, cameraPosition,
                   cameraAspect, meshes, released, now, intervalDue,
                   resizeListeners, disposeCalls, velVars, genVars,
                   bulgeVars, cmpVars, lodVars,
                   batchVars, viewerVars>>

NextQuality ==
    \/ QualityConstruct
    \/ QualityTick
    \/ QualityIntervalFire
    \/ ChangeFrameRate

SpecQuality == InitQuality /\ [][NextQuality]_vars

(***************************************************************************)
(* Claims about the renderer (checked under Spec).                         *)
(***************************************************************************)
\* the lifecycle state: Ready (constructed, no frame requested yet) is
\* passed through inside the constructor
Lifecycle ==
    IF ~constructed THEN "Uninitialized"
    ELSE IF disposeCalls > 0 THEN "Disposed"
    ELSE IF pendingFrames = {} THEN "Ready"
    ELSE "Running"

LifecycleRank ==
    CASE Lifecycle = "Uninitialized" -> 0
      [] Lifecycle = "Ready" -> 1
      [] Lifecycle = "Running" -> 2
      [] Lifecycle = "Disposed" -> 3

\* what rounding may change of a radius: cos and sin are off by up to
\* 1/Unit, the radius reaches 105
RadiusTolerance == Unit \div 5

\* C2: after any number of animation ticks every star's distance from the
\* vertical axis, sqrt(x^2 + z^2), equals up to rounding its value in the
\* freshly generated star set.
C2_RotationPreservesRadius ==
    constructed =>
        \A i \in 1..Len(generatedRadii) :
            Abs(AxisDistances(positions)[i] - generatedRadii[i])
                <= RadiusTolerance

\* C4: a call of dispose() after the first releases nothing again: no
\* resource's release count moves and no frame request is touched.
C4_SecondDisposeReleasesNothing ==
    [][(disposeCalls >= 1 /\ disposeCalls' > disposeCalls) =>
          /\ released' = released
          /\ \A l \in Levels :
                /\ meshes'[l].geometryReleases = meshes[l].geometryReleases
                /\ meshes'[l].materialReleases = meshes[l].materialReleases
          /\ pendingFrames' = pendingFrames]_vars

\* C5: the lifecycle only moves forward, Uninitialized -> Ready -> Running
\* -> Disposed; once dispose() has run no frame request is pending and no
\* animation tick runs again.
C5_DisposedIsTerminal ==
    /\ [](disposeCalls > 0 => pendingFrames = {})
    /\ [][/\ LifecycleRank' >= LifecycleRank
          /\ disposeCalls > 0 =>
                /\ lastOp' # "animate"
                /\ UNCHANGED <<frameCount, fps, lastFpsTime, animationFrameId>>
         ]_vars

\* dispose() has just run on a renderer whose loop had been running
C5_Witness ==
    /\ disposeCalls = 1
    /\ lastOp = "dispose"
    /\ now > 0
    /\ fps > 0

\* the star set and the rotation state are those of galaxyConfig, freshly
\* generated
StarsMatchConfig ==
    /\ sizes.len = galaxyConfig.starCount + BulgeStarCount(galaxyConfig)
    /\ positions.len = 3 * sizes.len
    /\ colors.len = 3 * sizes.len
    /\ rotationRadii.len = sizes.len
    /\ angularVelocities.len = sizes.len
    /\ Len(rotationRadii.data) = TrackedStars(positions)
    /\ Len(angularVelocities.data) = TrackedStars(positions)
    /\ \A i \in 1..TrackedStars(positions) :
          /\ rotationRadii.data[i] = Fround(RotationRadius(positions, i - 1))
          /\ angularVelocities.data[i] =
                Fround(CalculateAngularVelocity(rotationRadii.data[i],
                                                galaxyConfig.rotationSpeed))
    /\ generatedRadii = AxisDistances(positions)

\* C6: updateConfig on a running renderer leaves the whole star set and
\* rotation state regenerated from the new config, in one step; the
\* lifecycle state stays and no frame request is cancelled or added.
C6_UpdateConfigRegenerates ==
    /\ [](lastOp = "updateConfig" => StarsMatchConfig)
    /\ [][lastOp' = "updateConfig" =>
             /\ Lifecycle = "Running" /\ Lifecycle' = "Running"
             /\ UNCHANGED <<pendingFrames, animationFrameId>>]_vars

\* updateConfig has just run between two ticks, with the larger config
C6_Witness ==
    /\ lastOp = "updateConfig"
    /\ now > 0
    /\ pendingFrames # {}
    /\ galaxyConfig.starCount > ReduceStarsAbove

\* C7: at all times the five arrays describe the same number of stars:
\* positions.length / 3 = colors.length / 3 = sizes.length =
\* rotationRadii.length = angularVelocities.length.
C7_ParallelArrays ==
    /\ positions.len = 3 * sizes.len
    /\ colors.len = 3 * sizes.len
    /\ rotationRadii.len = sizes.len
    /\ angularVelocities.len = sizes.len
    /\ Len(positions.data) = 3 * Len(rotationRadii.data)
    /\ Len(angularVelocities.data) = Len(rotationRadii.data)

\* a tick has run after the quality adjustment halved the star count
C7_Witness ==
    /\ lowPerformanceMode
    /\ lastOp = "animate"
    /\ galaxyConfig.starCount * 2 > ReduceStarsAbove
    /\ galaxyConfig.starCount <= ReduceStarsAbove
    /\ sizes.len = galaxyConfig.starCount + BulgeStarCount(galaxyConfig)

\* C17: no rotation update changes a star's y: after any number of ticks
\* every star's y is the y it was generated with.
C17_YUnchanged ==
    constructed => YCoordinates(positions) = generatedY

\* C17 witness: a star off the galactic plane that the ticks have turned
C17_Witness ==
    /\ lastOp = "animate"
    /\ now >= Unit
    /\ Len(generatedY) = 1
    /\ generatedY[1] # 0
    /\ At(rotationRadii, 0) >= Unit \div 10
    /\ At(angularVelocities, 0) > 0

\* C20: every tick of animate runs to completion without raising an error,
\* the ticks that close a one-second frame-rate window included.
C20_TicksComplete ==
    lastOp = "animate" => ~tickThrew

(***************************************************************************)
(* Claims about the quality controller (checked under SpecQuality).        *)
(***************************************************************************)
\* C19: an evaluation switches normal -> low only when fps < 30 and
\* low -> normal only when fps > 45; with 30 <= fps <= 45 it leaves the mode
\* as it is.
C19_Hysteresis ==
    [][lastOp' = "interval" =>
          /\ (~lowPerformanceMode /\ lowPerformanceMode') => fps < 30
          /\ (lowPerformanceMode /\ ~lowPerformanceMode') => fps > 45
          /\ (30 <= fps /\ fps <= 45) =>
                lowPerformanceMode' = lowPerformanceMode]_vars

\* C19 witness: the second evaluation found the renderer in low mode at 40
\* frames per second and left it there
C19_Witness ==
    /\ lastOp = "interval"
    /\ now = 2 * IntervalPeriod
    /\ fps = 40
    /\ lowPerformanceMode

\* how far two angles are apart on the circle
AngleGap(a, b) ==
    LET d == (a - b) % TwoPi
    IN  Min(d, TwoPi - d)

\* what rounding may change of an angle: a hundredth of a radian
AngleTolerance == Unit \div 100

\* the star turns: updateStarPositions skips rotationRadius < 0.1
Rotating(i) == rotationRadii.data[i] >= Unit \div 10

\* C21: after ticks at t1 < ... < tn each rotating star's angle about the
\* axis is, up to rounding, its generated angle plus angularVelocity * tn:
\* it depends on the generated state and the latest elapsed time only.
C21_AngleFromElapsedTime ==
    (constructed /\ lastOp = "animate") =>
        \A i \in 1..Len(generatedAngles) :
            Rotating(i) =>
                AngleGap(AxisAngles(positions)[i],
                         generatedAngles[i]
                            + RotationAngle(now, angularVelocities.data[i]))
                    <= AngleTolerance

\* C27: once dispose() has run, no callback the renderer registered (the
\* setInterval callback of monitorPerformance, the resize listener) changes
\* the performance mode, sets a renderer parameter or regenerates the stars.
C27_DisposedCallbacksInert ==
    [][(disposeCalls > 0 /\ lastOp' \in {"interval", "resize"}) =>
          UNCHANGED <<lowPerformanceMode, pixelRatio, galaxyConfig,
                      starVars>>]_vars

\* C29: from the end of the constructor until dispose() exactly one frame
\* callback is pending between two ticks, the one animationFrameId names;
\* a tick takes its own request and leaves one new request; updateConfig,
\* the quality adjustment and the resize handler request and cancel none.
C29_OneFramePending ==
    /\ []((constructed /\ disposeCalls = 0) =>
            /\ animationFrameId # 0
            /\ pendingFrames = {animationFrameId})
    /\ [][/\ lastOp' = "animate" =>
                /\ animationFrameId' \notin pendingFrames
                /\ Cardinality(pendingFrames') = Cardinality(pendingFrames)
          /\ lastOp' \in {"updateConfig", "interval", "resize"} =>
                UNCHANGED <<pendingFrames, animationFrameId>>
         ]_vars

\* a tick has closed a frame-rate window after the quality adjustment
\* halved the stars and the window was resized: one request is pending
C29_Witness ==
    /\ lastOp = "animate"
    /\ disposeCalls = 0
    /\ tickThrew
    /\ lowPerformanceMode
    /\ cameraAspect # InitialAspect
    /\ Cardinality(pendingFrames) = 1

\* the buckets the optimizer forms of the positions as they are now
CurrentBucket(l) ==
    StarsByLOD(StarEntries(positions, cameraPosition,
                           Frustum(cameraPosition, cameraAspect)), l)

\* C25: a tick reads the elapsed time, rotates the positions, lets the
\* optimizer classify and submit them, renders, and only then advances the
\* frame counter and, when a frame-rate window closes, triggers the quality
\* evaluation: what a tick has rendered are the buckets of the positions it
\* has rotated itself, and the tick whose quality evaluation ended early
\* has rendered and has closed its window at the elapsed time it read.
C25_RenderUsesTickPositions ==
    (constructed /\ lastOp = "animate") =>
        /\ \A l \in Levels :
              /\ meshes[l].inScene <=> CurrentBucket(l) # <<>>
              /\ meshes[l].count = Len(CurrentBucket(l))
        /\ tickThrew => frameCount = 0 /\ lastFpsTime = now /\ fps > 0
        /\ ~tickThrew => frameCount > 0 /\ lastFpsTime < now

\* a tick has moved the star from the bucket of one level, whose batch is
\* now empty, into the bucket of another
C25_Witness ==
    /\ lastOp = "animate"
    /\ \E l, k \in Levels :
          /\ l # k
          /\ meshes[l].inScene /\ meshes[l].count = 1
          /\ meshes[k].cached /\ ~meshes[k].inScene /\ meshes[k].count = 0

\* C28: under the quality controller starCount changes only in the
\* evaluation that switches from normal to low mode, where it becomes
\* floor(starCount / 2) if it is above 10000 and stays otherwise; it never
\* increases, the switch back to normal mode included, and is never set
\* below 5000.
C28_StarCountOnlyHalved ==
    [][constructed =>
          /\ galaxyConfig'.starCount # galaxyConfig.starCount =>
                /\ lastOp' = "interval"
                /\ ~lowPerformanceMode /\ lowPerformanceMode'
          /\ (~lowPerformanceMode /\ lowPerformanceMode') =>
                galaxyConfig'.starCount =
                    IF galaxyConfig.starCount > ReduceStarsAbove
                    THEN galaxyConfig.starCount \div 2
                    ELSE galaxyConfig.starCount
          /\ galaxyConfig'.starCount <= galaxyConfig.starCount
          /\ galaxyConfig'.starCount # galaxyConfig.starCount =>
                galaxyConfig'.starCount >= 5 * Unit
         ]_vars

\* the controller has halved the stars twice, having been back in normal
\* mode in between
C28_Witness ==
    /\ lastOp = "interval"
    /\ lowPerformanceMode
    /\ now = 3 * IntervalPeriod
    /\ galaxyConfig.starCount = 5250

(***************************************************************************)
(* SpecBatch: one optimizer over MaxFrames frames.  Each frame hands       *)
(* optimizeStarRendering a positions array of up to MaxBatchStars stars of *)
(* BatchStars; the meshes it has cached stay from frame to frame.          *)
(***************************************************************************)
MaxFrames == 2
MaxBatchStars == 2

\* the camera is on the z axis and looks at the origin
BatchCamera == <<0, 0, 100 * Unit>>

\* stars straight ahead at the distances 30 and 40 (level 0), 60 (level 1)
\* and 900 (past the cutoff), and one far beside the view
BatchStars ==
    {<<0, 0, 70 * Unit>>, <<0, 0, 60 * Unit>>, <<0, 0, 40 * Unit>>,
     <<0, 0, -800 * Unit>>, <<1000 * Unit, 0, 30 * Unit>>}

\* the star sets of a frame
BatchStarSets == UNION {[1..n -> BatchStars] : n \in 0..MaxBatchStars}

InitBatch ==
    /\ BatchIdle
    /\ VelIdle /\ GenIdle /\ BulgeIdle /\ CmpIdle /\ LodIdle
    /\ ViewerIdle /\ RenIdle /\ PaceIdle

\* renderWithOptimizations of one frame
OptimizeFrame ==
    /\ batchFrames < MaxFrames
    /\ \E stars \in BatchStarSets :
          /\ batchPositions' = [len |-> 3 * Len(stars), data |-> Flatten(stars)]
          /\ batchMeshes' = OptimizeStarRendering(batchMeshes, BatchCamera,
                                                  InitialAspect, batchPositions')
    /\ batchFrames' = batchFrames + 1
    /\ UNCHANGED <<velVars, genVars, bulgeVars, cmpVars, lodVars, renVars,
                   viewerVars>>

NextBatch == OptimizeFrame

SpecBatch == InitBatch /\ [][NextBatch]_vars

(***************************************************************************)
(* Claims about the optimizer's batches (checked under SpecBatch).         *)
(***************************************************************************)
\* the camera distance of star i (from 0) of the latest frame
BatchDistance(i) == DistanceTo(StarPositionOf(batchPositions, i), BatchCamera)

\* the stars of the latest frame that belong to level l: within the cutoff,
\* in the frustum, l the level of their distance
BatchBucket(l) ==
    {i \in 0..(TrackedStars(batchPositions) - 1) :
        /\ BatchDistance(i) <= 2 * 400 * Unit
        /\ IsPointVisible(Frustum(BatchCamera, InitialAspect),
                          StarPositionOf(batchPositions, i))
        /\ GetLODLevel(BatchDistance(i)) = l}

\* C22: in every frame, the batch of every level submitted has room for the
\* stars written to it: its capacity is at least its instance count.
C22_CapacityCoversBucket ==
    \A l \in Levels :
        batchMeshes[l].inScene =>
            batchMeshes[l].capacity >= batchMeshes[l].count

\* C23: after every optimizeStarRendering call the scene holds the batch of
\* exactly the levels that received a star in this frame, each with an
\* instance count equal to its bucket's size, and no batch of a level whose
\* bucket is empty in this frame, though it may have held stars before.
C23_OneBatchPerBucket ==
    batchFrames > 0 =>
        \A l \in Levels :
            /\ batchMeshes[l].inScene <=> BatchBucket(l) # {}
            /\ batchMeshes[l].inScene => batchMeshes[l].cached
            /\ batchMeshes[l].count = Cardinality(BatchBucket(l))

\* level 0 held two stars in an earlier frame and none in this one, which
\* put a star into level 1
C23_Witness ==
    /\ batchFrames > 1
    /\ batchMeshes[0].cached /\ batchMeshes[0].capacity = 2
    /\ BatchBucket(0) = {}
    /\ ~batchMeshes[0].inScene
    /\ BatchBucket(1) # {}
    /\ batchMeshes[1].inScene

\* C24: within each bucket the instances are written back to front:
\* instance k is at least as far from the camera as instance k + 1, and
\* the instances are stars of the bucket.
C24_BackToFront ==
    \A l \in Levels :
        batchMeshes[l].inScene =>
            /\ \A k \in 1..(Len(batchMeshes[l].written) - 1) :
                  BatchDistance(batchMeshes[l].written[k])
                      >= BatchDistance(batchMeshes[l].written[k + 1])
            /\ \A k \in 1..Len(batchMeshes[l].written) :
                  batchMeshes[l].written[k] \in BatchBucket(l)
            /\ batchMeshes[l].capacity >= batchMeshes[l].count =>
                  {batchMeshes[l].written[k] :
                      k \in 1..Len(batchMeshes[l].written)} = BatchBucket(l)

\* the nearer star comes first in the array and is written last
C24_Witness ==
    /\ batchMeshes[0].inScene
    /\ batchMeshes[0].written = <<1, 0>>
    /\ BatchDistance(0) < BatchDistance(1)

(***************************************************************************)
(* SpecViewer: one GalaxyViewer component on a device of ViewerDevices,    *)
(* from before onMount.  onMount, the animation frame callback, a change   *)
(* of the galaxyConfig prop, the resize listener and onDestroy.  The       *)
(* frames keep their pace within a frame-rate window.                      *)
(***************************************************************************)
MaxViewerTime == 2100

\* desktops of two pixel ratios, a laptop with 4 GB, a phone, a browser
\* without WebGL, one with few extensions, and one whose renderer fails
ViewerDevices ==
    {Desktop,
     [Desktop EXCEPT !.devicePixelRatio = 2 * Unit],
     [Desktop EXCEPT !.memory = 4],
     [Desktop EXCEPT !.isMobile = TRUE, !.memory = 4,
                     !.devicePixelRatio = 2 * Unit],
     [Desktop EXCEPT !.gl = "none", !.rendererWorks = FALSE],
     [Desktop EXCEPT !.gl = "limited"],
     [Desktop EXCEPT !.rendererWorks = FALSE]}

\* the configs the control panel hands over: two particle sizes
ViewerConfigs ==
    {DefaultViewerConfig, [DefaultViewerConfig EXCEPT !.particleSize = 200]}

\* the id requestAnimationFrame returns: one not in use
ViewerFrameId(frames, animationId) ==
    CHOOSE id \in 1..3 : id \notin frames /\ id # animationId

InitViewer ==
    /\ viewer = NewViewer(DefaultViewerConfig)
    /\ device \in ViewerDevices
    /\ page \in {NewPage(interval) : interval \in ViewerFrameIntervals}
    /\ VelIdle /\ GenIdle /\ BulgeIdle /\ CmpIdle /\ LodIdle
    /\ BatchIdle /\ RenIdle /\ PaceIdle

\* onMount: detectDeviceCapabilities(); initializeScene(); animate();
\* the resize listener is added unless animate() threw
Mounted(v) ==
    /\ viewer' = [AnimateViewer(v, 0, 1, device.devicePixelRatio)
                     EXCEPT !.mounted = "mounted"]
    /\ page' = [page EXCEPT
                   !.frames = {1},
                   !.renderThrew = ~v.renderer,
                   !.resizeListeners = IF v.renderer THEN 1 ELSE 0,
                   !.lastOp = "mount"]

OnMount ==
    /\ viewer.mounted = "created"
    /\ Mounted(InitializeScene(DetectDeviceCapabilities(viewer, device),
                               device))
    /\ UNCHANGED <<device, velVars, genVars, bulgeVars, cmpVars, lodVars,
                   renVars, batchVars>>

\* the animation frame callback, page.interval after the frame before
AnimationFrame ==
    /\ page.now + page.interval <= MaxViewerTime
    /\ \E id \in page.frames :
          /\ viewer' = AnimateViewer(viewer, page.now + page.interval,
                                     ViewerFrameId(page.frames, id),
                                     device.devicePixelRatio)
          /\ page' = [page EXCEPT
                         !.now = @ + page.interval,
                         !.frames = (@ \ {id})
                                       \cup {ViewerFrameId(page.frames, id)},
                         !.renderThrew = ~viewer.renderer,
                         !.lastOp = "animate"]
    /\ UNCHANGED <<device, velVars, genVars, bulgeVars, cmpVars, lodVars,
                   renVars, batchVars>>

\* the galaxyConfig prop changes and the $effect runs
ConfigChanged ==
    /\ viewer.mounted = "mounted"
    /\ \E config \in ViewerConfigs \ {viewer.galaxyConfig} :
          viewer' = IF viewer.scene /\ viewer.galaxyMesh
                    THEN CreateGalaxy([viewer EXCEPT !.galaxyConfig = config])
                    ELSE [viewer EXCEPT !.galaxyConfig = config]
    /\ page' = [page EXCEPT !.lastOp = "config"]
    /\ UNCHANGED <<device, velVars, genVars, bulgeVars, cmpVars, lodVars,
                   renVars, batchVars>>

\* the window's resize event
ViewerResize ==
    /\ page.resizeListeners > 0
    /\ page.lastOp # "resize"
    /\ viewer' = HandleResize(viewer, device.devicePixelRatio)
    /\ page' = [page EXCEPT !.lastOp = "resize"]
    /\ UNCHANGED <<device, velVars, genVars, bulgeVars, cmpVars, lodVars,
                   renVars, batchVars>>

\* onDestroy: cleanup(), and the function onMount returned
OnDestroy ==
    /\ viewer.mounted = "mounted"
    /\ viewer' = [Cleanup(viewer) EXCEPT !.mounted = "destroyed"]
    /\ page' = [page EXCEPT
                   !.frames = IF viewer.animationId # 0
                              THEN @ \ {viewer.animationId} ELSE @,
                   !.resizeListeners = 0,
                   !.lastOp = "destroy"]
    /\ UNCHANGED <<device, velVars, genVars, bulgeVars, cmpVars, lodVars,
                   renVars, batchVars>>

\* the display's frame rate changes once a frame-rate window was closed
ChangeViewerFrameRate ==
    /\ viewer.mounted = "mounted"
    /\ page.lastOp = "animate"
    /\ viewer.frameCount = 0
    /\ \E interval \in ViewerFrameIntervals \ {page.interval} :
          page' = [page EXCEPT !.interval = interval, !.lastOp = "frameRate"]
    /\ UNCHANGED <<viewer, device, velVars, genVars, bulgeVars, cmpVars,
                   lodVars, renVars, batchVars>>

NextViewer ==
    \/ OnMount
    \/ AnimationFrame
    \/ ConfigChanged
    \/ ViewerResize
    \/ OnDestroy
    \/ ChangeViewerFrameRate

SpecViewer == InitViewer /\ [][NextViewer]_vars

(***************************************************************************)
(* Claims about GalaxyViewer (checked under SpecViewer).                   *)
(***************************************************************************)
\* scene, camera and renderer were created and a star set exists
ViewerReady == viewer.scene /\ viewer.renderer /\ viewer.galaxyMesh

\* C26: the frame loop is started only from Ready: a frame callback is
\* requested or runs only if scene, camera and renderer were created and an
\* initial star set exists; when WebGL is reported unavailable or the
\* renderer cannot be created no frame callback is ever requested, and the
\* failure shows only as the error message.
C26_LoopOnlyWhenReady ==
    /\ page.frames # {} => ViewerReady
    /\ ~viewer.isWebGLAvailable =>
          /\ viewer.webGLErrorMessage # ""
          /\ page.frames = {}
          /\ viewer.animationId = 0
          /\ ~page.renderThrew

\* C30: whenever the scene is initialised, the renderer's pixel ratio and
\* the material's point size are those applyPerformanceSettings sets for
\* the current performanceLevel, set by the device detection or by a later
\* frame-rate evaluation.
C30_SettingsMatchLevel ==
    ViewerReady =>
        /\ viewer.pixelRatio = PixelRatioFor(viewer.performanceLevel,
                                             device.devicePixelRatio)
        /\ viewer.pointSize = PointSizeFor(viewer.performanceLevel,
                                           viewer.galaxyConfig.particleSize)

=============================================================================
